---- MODULE Spec2Model ----
(***************************************************************************)
(* A model of NameComparator (src/NameComparator/NameComparator.py).       *)
(*                                                                         *)
(* A Python str is a sequence of one-character strings; a name is such a   *)
(* sequence with " " between its words.  Indices inside alignment triples  *)
(* are 0-based as in the code; sequences are 1-based, so word i of the     *)
(* code is words[i + 1] here.                                              *)
(***************************************************************************)
EXTENDS Integers, Sequences, FiniteSets, TLC

VARIABLES pc, call, in0, in1, name0, name1, data, match, worth, mod0, mod1,
          prev, setOrder, combo, once, twice,
          cache,          \* the lru_cache of _getIpaOfOneWord, oldest entry first
          nicknameSets,   \* self.nicknameSets
          spellingRules,  \* self.spellingRules
          callers         \* the local variables of the calls that share a comparator

vars == <<pc, call, in0, in1, name0, name1, data, match, worth, mod0, mod1,
          prev, setOrder, combo, once, twice, cache,
          nicknameSets, spellingRules, callers>>

(***************************************************************************)
(* Python values that are not strings or records.                          *)
(***************************************************************************)
\* None where an attempt tuple is expected; a value that is not a str
None == <<>>
NonString == <<"<not a str>">>

Max(a, b) == IF a >= b THEN a ELSE b
Min(a, b) == IF a <= b THEN a ELSE b
Abs(a) == IF a >= 0 THEN a ELSE 0 - a

(***************************************************************************)
(* str primitives                                                          *)
(***************************************************************************)
IsSpace(c) == c \in {" ", "\t"}

Lower == {"a", "b", "c", "d", "e", "f", "g", "h", "i", "j", "k", "l", "m",
          "n", "o", "p", "q", "r", "s", "t", "u", "v", "w", "x", "y", "z"}
Digits == {"0", "1", "2", "3", "4", "5", "6", "7", "8", "9"}

\* \w of the re module on a lower-cased ascii str
IsWordChar(c) == c \in Lower \cup Digits \cup {"_"}

\* p occurs in s at (1-based) position i
IsAt(s, i, p) ==
    /\ i >= 1
    /\ i + Len(p) - 1 <= Len(s)
    /\ \A k \in 1..Len(p) : s[i + k - 1] = p[k]

\* `p in s`
Contains(s, p) == \E i \in 1..(Len(s) - Len(p) + 1) : IsAt(s, i, p)

\* s.index(p), 1-based, for p in s
IndexOf(s, p) ==
    CHOOSE i \in 1..(Len(s) - Len(p) + 1) :
        /\ IsAt(s, i, p)
        /\ \A h \in 1..(i - 1) : ~IsAt(s, h, p)

StartsWith(s, p) == IsAt(s, 1, p)

\* s[i:] for a 0-based i
Drop(s, i) == SubSeq(s, i + 1, Len(s))

\* name = value, then the statements after it: the right-hand side is
\* evaluated before what follows, as Python does
Assign(value, Rest(_)) == CHOOSE result \in {Rest(name) : name \in {value}} : TRUE

\* the list after list[index] = item, for a 0-based index
SetItem(list, index, item) == SubSeq(list, 1, index) \o <<item>> \o Drop(list, index + 1)

RECURSIVE Repeat(_, _)
\* [item] * n
Repeat(item, n) == IF n <= 0 THEN <<>> ELSE <<item>> \o Repeat(item, n - 1)

RECURSIVE ReplaceFrom(_, _, _, _)
ReplaceFrom(s, i, old, new) ==
    IF i > Len(s) THEN <<>>
    ELSE IF IsAt(s, i, old) THEN new \o ReplaceFrom(s, i + Len(old), old, new)
    ELSE <<s[i]>> \o ReplaceFrom(s, i + 1, old, new)

\* s.replace(old, new) for a non-empty old
Replace(s, old, new) == ReplaceFrom(s, 1, old, new)

RECURSIVE ReplaceCountFrom(_, _, _, _, _)
ReplaceCountFrom(s, i, old, new, count) ==
    IF i > Len(s) THEN <<>>
    ELSE IF count > 0 /\ IsAt(s, i, old)
         THEN new \o ReplaceCountFrom(s, i + Len(old), old, new, count - 1)
    ELSE <<s[i]>> \o ReplaceCountFrom(s, i + 1, old, new, count)

\* s.replace(old, new, 1)
ReplaceFirst(s, old, new) == ReplaceCountFrom(s, 1, old, new, 1)

RECURSIVE SplitFrom(_, _, _)
SplitFrom(s, i, cur) ==
    IF i > Len(s) THEN (IF cur = <<>> THEN <<>> ELSE <<cur>>)
    ELSE IF IsSpace(s[i])
         THEN (IF cur = <<>> THEN <<>> ELSE <<cur>>) \o SplitFrom(s, i + 1, <<>>)
    ELSE SplitFrom(s, i + 1, Append(cur, s[i]))

\* s.split()
Split(s) == SplitFrom(s, 1, <<>>)

RECURSIVE Join(_)
\* ' '.join(words)
Join(words) ==
    IF words = <<>> THEN <<>>
    ELSE IF Len(words) = 1 THEN words[1]
    ELSE words[1] \o <<" ">> \o Join(Tail(words))

RECURSIVE LStrip(_)
LStrip(s) == IF s # <<>> /\ IsSpace(s[1]) THEN LStrip(Tail(s)) ELSE s

RECURSIVE RStrip(_)
RStrip(s) ==
    IF s # <<>> /\ IsSpace(s[Len(s)]) THEN RStrip(SubSeq(s, 1, Len(s) - 1)) ELSE s

\* s.strip()
Strip(s) == RStrip(LStrip(s))

RECURSIVE CollapseRuns(_, _, _)
\* re.sub(<run of characters of `cls`>+, " ", s)
CollapseRuns(s, i, cls) ==
    IF i > Len(s) THEN <<>>
    ELSE IF s[i] \in cls
         THEN IF i > 1 /\ s[i - 1] \in cls
              THEN CollapseRuns(s, i + 1, cls)
              ELSE <<" ">> \o CollapseRuns(s, i + 1, cls)
    ELSE <<s[i]>> \o CollapseRuns(s, i + 1, cls)

\* re.sub(r" +", " ", s)
CollapseSpaces(s) == CollapseRuns(s, 1, {" "})

\* re.sub(r"\s+", " ", s)
CollapseWhitespace(s) == CollapseRuns(s, 1, {" ", "\t"})

\* \b at the gap before (1-based) position i of s
IsBoundary(s, i) ==
    LET before == i > 1 /\ IsWordChar(s[i - 1])
        after == i <= Len(s) /\ IsWordChar(s[i])
    IN before # after

RECURSIVE SubWordFrom(_, _, _, _, _, _)
SubWordFrom(s, i, w, new, left, right) ==
    IF i > Len(s) THEN <<>>
    ELSE IF /\ IsAt(s, i, w)
            /\ (left => IsBoundary(s, i))
            /\ (right => IsBoundary(s, i + Len(w)))
         THEN new \o SubWordFrom(s, i + Len(w), w, new, left, right)
    ELSE <<s[i]>> \o SubWordFrom(s, i + 1, w, new, left, right)

\* re.sub(r"\bw\b", new, s)
SubWord(s, w, new) == SubWordFrom(s, 1, w, new, TRUE, TRUE)

\* re.sub(r"\bw", new, s)
SubWordStart(s, w, new) == SubWordFrom(s, 1, w, new, TRUE, FALSE)

\* re.sub(r"w\b", new, s)
SubWordEnd(s, w, new) == SubWordFrom(s, 1, w, new, FALSE, TRUE)

(***************************************************************************)
(* fuzzywuzzy: fuzz.ratio and fuzz.partial_ratio                           *)
(***************************************************************************)
\* one row of the longest-common-subsequence table, from the row before:
\* row[j] is the length for the first j characters of b
LcsRow(prevRow, ch, b) ==
    LET SetMax(S) == CHOOSE x \in S : \A y \in S : y <= x
    IN [j \in 1..Len(b) |->
           SetMax({prevRow[j]} \cup
                  {(IF h = 1 THEN 0 ELSE prevRow[h - 1]) + 1 :
                       h \in {g \in 1..j : b[g] = ch}})]

RECURSIVE LcsRows(_, _, _, _)
LcsRows(a, b, i, prevRow) ==
    IF i > Len(a) THEN prevRow
    ELSE LcsRows(a, b, i + 1, LcsRow(prevRow, a[i], b))

\* the number of characters the two strings share, in order
LcsLen(a, b) ==
    IF a = <<>> \/ b = <<>> THEN 0
    ELSE LcsRows(a, b, 1, [j \in 1..Len(b) |-> 0])[Len(b)]

\* fuzz.ratio(a, b): 2 * matches / total length, as a rounded percentage:
\* int(round(100 * n / d)), Python rounding (half to even)
Ratio(a, b) ==
    LET Percent(n, d) ==
            LET q == (100 * n) \div d
                r == (100 * n) % d
            IN IF 2 * r < d THEN q
               ELSE IF 2 * r > d THEN q + 1
               ELSE IF q % 2 = 0 THEN q ELSE q + 1
    IN IF a = <<>> \/ b = <<>> THEN 0
       ELSE Percent(2 * LcsLen(a, b), Len(a) + Len(b))

\* fuzz.partial_ratio(a, b): the best ratio of the shorter string against a
\* window of its own length in the longer one
PartialRatio(a, b) ==
    LET Best(ratios) == CHOOSE r \in ratios : \A x \in ratios : x <= r
        WindowRatios(shorter, longer) ==
            {Ratio(shorter, SubSeq(longer, st, st + Len(shorter) - 1)) :
                 st \in 1..(Len(longer) - Len(shorter) + 1)}
    IN IF a = <<>> \/ b = <<>> THEN 0
       ELSE Best(WindowRatios(IF Len(a) <= Len(b) THEN a ELSE b,
                              IF Len(a) <= Len(b) THEN b ELSE a))

(***************************************************************************)
(* _findWhichWordsMatchAndHowWell                                          *)
(***************************************************************************)
\* the score of one pair of words
WordScore(word0, word1) ==
    LET Score(rScore) ==
            IF word0[1] # word1[1] THEN rScore
            ELSE Max(rScore, PartialRatio(word0, word1))
    IN IF Len(word0) = 1 \/ Len(word1) = 1
       THEN (IF word0[1] = word1[1] THEN 100 ELSE 0)
       ELSE Score(Ratio(word0, word1))

RECURSIVE SumScores(_)
\* sum(y[2] for y in combo)
SumScores(c) == IF c = <<>> THEN 0 ELSE c[1][3] + SumScores(Tail(c))

RECURSIVE PrependAll(_, _)
PrependAll(x, seqs) ==
    IF seqs = <<>> THEN <<>>
    ELSE <<(<<x>> \o seqs[1])>> \o PrependAll(x, Tail(seqs))

RECURSIVE AllCombinationsFrom(_, _, _, _, _)
\* itertools.combinations(scores, k) with nothing filtered out
AllCombinationsFrom(scores, k, c, usedI, usedJ) ==
    IF k = 0 THEN << <<>> >>
    ELSE IF c > Len(scores) THEN <<>>
    ELSE PrependAll(scores[c], AllCombinationsFrom(scores, k - 1, c + 1, usedI, usedJ))
             \o AllCombinationsFrom(scores, k, c + 1, usedI, usedJ)

RECURSIVE ValidCombinationsFrom(_, _, _, _, _)
\* itertools.combinations(scores, k) in its order of generation, keeping the
\* combinations whose first indices are distinct and whose second indices
\* are distinct.  scores is the list of triples in the order it was built.
ValidCombinationsFrom(scores, k, c, usedI, usedJ) ==
    IF k = 0 THEN << <<>> >>
    ELSE IF c > Len(scores) THEN <<>>
    ELSE LET tup == scores[c]
             withTup ==
                 IF tup[1] \in usedI \/ tup[2] \in usedJ THEN <<>>
                 ELSE PrependAll(tup,
                          ValidCombinationsFrom(scores, k - 1, c + 1,
                              usedI \cup {tup[1]}, usedJ \cup {tup[2]}))
         IN withTup \o ValidCombinationsFrom(scores, k, c + 1, usedI, usedJ)

\* the valid combinations of at most one triple
SingleCombinations(scores, k) == ValidCombinationsFrom(scores, Min(k, 1), 1, {}, {})

ValidCombinations(scores, k) == ValidCombinationsFrom(scores, k, 1, {}, {})

RECURSIVE ScoreList(_, _, _)
\* the list `scores`: one triple per (i, j), i outer, j inner; c counts the
\* triples built so far
ScoreList(words0, words1, c) ==
    IF c >= Len(words0) * Len(words1) THEN <<>>
    ELSE LET i == c \div Len(words1)
             j == c % Len(words1)
         IN << <<i, j, WordScore(words0[i + 1], words1[j + 1])>> >>
                \o ScoreList(words0, words1, c + 1)

RECURSIVE MaxSumOf(_)
MaxSumOf(combos) ==
    IF Len(combos) = 1 THEN SumScores(combos[1])
    ELSE Max(SumScores(combos[1]), MaxSumOf(Tail(combos)))

RECURSIVE LetterCount(_, _, _)
LetterCount(c, words0, words1) ==
    IF c = <<>> THEN 0
    ELSE Len(words0[c[1][1] + 1]) + Len(words1[c[1][2] + 1])
         + LetterCount(Tail(c), words0, words1)

\* the first combination, whatever its letter count
FirstCombination(combos, n, words0, words1, maxLetterCount, bestCombo) == combos[1]

RECURSIVE MostLetters(_, _, _, _, _, _)
\* the loop over maxCombinations: a later combination replaces bestCombo
\* only when it has strictly more letters
MostLetters(combos, n, words0, words1, maxLetterCount, bestCombo) ==
    IF n > Len(combos) THEN bestCombo
    ELSE LET letterCount == LetterCount(combos[n], words0, words1)
         IN IF letterCount > maxLetterCount
            THEN MostLetters(combos, n + 1, words0, words1, letterCount, combos[n])
            ELSE MostLetters(combos, n + 1, words0, words1, maxLetterCount, bestCombo)

FindWhichWordsMatchAndHowWell(n0, n1) ==
    Assign(<<Split(n0), Split(n1)>>, LAMBDA words :
    Assign(ScoreList(words[1], words[2], 0), LAMBDA scores :
    Assign(ValidCombinations(scores, Min(Len(words[1]), Len(words[2]))),
           LAMBDA validCombinations :
    Assign(MaxSumOf(validCombinations), LAMBDA maxSum :
        MostLetters(SelectSeq(validCombinations, LAMBDA c : SumScores(c) = maxSum),
                    1, words[1], words[2], 0, <<>>)))))

(***************************************************************************)
(* str literals of the source                                              *)
(***************************************************************************)
\* the str literals of the source, by name
Literal ==
    [ jr |-> <<"j", "r">>,
      sr |-> <<"s", "r">>,
      prof |-> <<"p", "r", "o", "f">>,
      mr |-> <<"m", "r">>,
      mrs |-> <<"m", "r", "s">>,
      ms |-> <<"m", "s">>,
      dr |-> <<"d", "r">>,
      student |-> <<"s", "t", "u", "d", "e", "n", "t">>,
      rev |-> <<"r", "e", "v">>,
      reverend |-> <<"r", "e", "v", "e", "r", "e", "n", "d">>,
      sister |-> <<"s", "i", "s", "t", "e", "r">>,
      brother |-> <<"b", "r", "o", "t", "h", "e", "r">>,
      mother |-> <<"m", "o", "t", "h", "e", "r">>,
      father |-> <<"f", "a", "t", "h", "e", "r">>,
      sp_in_law |-> <<" ", "i", "n", " ", "l", "a", "w">>,
      head_of_household |-> <<"h", "e", "a", "d", " ", "o", "f", " ", "h", "o", "u", "s", "e", "h", "o", "l", "d">>,
      sp_the_sp |-> <<" ", "t", "h", "e", " ">>,
      no_suffix |-> <<"n", "o", " ", "s", "u", "f", "f", "i", "x">>,
      van_de |-> <<"v", "a", "n", " ", "d", "e">>,
      van_den |-> <<"v", "a", "n", " ", "d", "e", "n">>,
      van_der |-> <<"v", "a", "n", " ", "d", "e", "r">>,
      vande |-> <<"v", "a", "n", "d", "e">>,
      vanden |-> <<"v", "a", "n", "d", "e", "n">>,
      vander |-> <<"v", "a", "n", "d", "e", "r">>,
      ii |-> <<"i", "i">>,
      iii |-> <<"i", "i", "i">>,
      iv |-> <<"i", "v">>,
      bjuniorb |-> <<"\\", "b", "j", "u", "n", "i", "o", "r", "\\", "b">>,
      bseniorb |-> <<"\\", "b", "s", "e", "n", "i", "o", "r", "\\", "b">>,
      bprofessorb |-> <<"\\", "b", "p", "r", "o", "f", "e", "s", "s", "o", "r", "\\", "b">>,
      bmisterb |-> <<"\\", "b", "m", "i", "s", "t", "e", "r", "\\", "b">>,
      bmissusb |-> <<"\\", "b", "m", "i", "s", "s", "u", "s", "\\", "b">>,
      bmissb |-> <<"\\", "b", "m", "i", "s", "s", "\\", "b">>,
      bdoctorb |-> <<"\\", "b", "d", "o", "c", "t", "o", "r", "\\", "b">>,
      smith |-> <<"s", "m", "i", "t", "h">>,
      bob |-> <<"b", "o", "b">>,
      rob |-> <<"r", "o", "b">>,
      robert |-> <<"r", "o", "b", "e", "r", "t">>,
      consonant_or_break |-> <<"c", "o", "n", "s", "o", "n", "a", "n", "t", "_", "o", "r", "_", "b", "r", "e", "a", "k">>,
      consonant |-> <<"c", "o", "n", "s", "o", "n", "a", "n", "t">>,
      vowel |-> <<"v", "o", "w", "e", "l">>,
      letter |-> <<"l", "e", "t", "t", "e", "r">>,
      letter_or_break |-> <<"l", "e", "t", "t", "e", "r", "_", "o", "r", "_", "b", "r", "e", "a", "k">>,
      mc |-> <<"m", "c">>,
      mac |-> <<"m", "a", "c">>,
      dash |-> <<"-">>,
      de |-> <<"d", "e">>,
      di |-> <<"d", "i">>,
      del |-> <<"d", "e", "l">>,
      dil |-> <<"d", "i", "l">>,
      van |-> <<"v", "a", "n">>,
      sp_or_sp |-> <<" ", "o", "r", " ">> ]

(***************************************************************************)
(* _cleanNameByItself                                                      *)
(***************************************************************************)
RECURSIVE Concat(_)
\* ''.join(strs)
Concat(strs) == IF strs = <<>> THEN <<>> ELSE strs[1] \o Concat(Tail(strs))

\* every character of s replaced by the string F gives for it
MapChars(s, F(_)) == Concat([i \in 1..Len(s) |-> F(s[i])])

\* unidecode(): ascii characters are kept, others are transliterated; three
\* characters outside ascii stand for the rest of Unicode
UnidecodeChar(c) ==
    CASE c = "e-acute" -> <<"e">>
      [] c = "sharp-s" -> <<"s", "s">>
      [] c = "combining-acute" -> <<>>
      [] OTHER -> <<c>>

Unidecode(s) == MapChars(s, UnidecodeChar)

\* c.lower() of one character
LowerChar(c) ==
    LET UpperCase ==
            <<"A", "B", "C", "D", "E", "F", "G", "H", "I", "J", "K", "L", "M",
              "N", "O", "P", "Q", "R", "S", "T", "U", "V", "W", "X", "Y", "Z">>
        LowerCase ==
            <<"a", "b", "c", "d", "e", "f", "g", "h", "i", "j", "k", "l", "m",
              "n", "o", "p", "q", "r", "s", "t", "u", "v", "w", "x", "y", "z">>
    IN IF \E n \in 1..26 : UpperCase[n] = c
       THEN <<LowerCase[CHOOSE n \in 1..26 : UpperCase[n] = c]>>
       ELSE <<c>>

\* str.lower()
ToLower(s) == MapChars(s, LowerChar)

\* re.sub(r'[^\S ]', ' ', s)
TabsToSpaces(s) ==
    LET F(c) == IF IsSpace(c) /\ c # " " THEN <<" ">> ELSE <<c>>
    IN MapChars(s, F)

\* re.sub(r"[.,?;\"*()]", "", s)
RemovePunctuation(s) ==
    SelectSeq(s, LAMBDA c : c \notin {".", ",", "?", ";", "\"", "*", "(", ")"})

RECURSIVE ApostropheSpaces(_, _)
\* re.sub("' +", "'", s)
ApostropheSpaces(s, i) ==
    IF i > Len(s) THEN <<>>
    ELSE IF s[i] = " " /\ \E h \in 1..(i - 1) :
                              s[h] = "'" /\ \A m \in (h + 1)..i : s[m] = " "
         THEN ApostropheSpaces(s, i + 1)
    ELSE <<s[i]>> \o ApostropheSpaces(s, i + 1)

RECURSIVE RemoveOrdinalFrom(_, _)
\* re.sub(r"[1-9][a-z]2,6", "", s): a digit, a letter, then the text "2,6"
RemoveOrdinalFrom(s, i) ==
    IF i > Len(s) THEN <<>>
    ELSE IF /\ i + 4 <= Len(s)
            /\ s[i] \in Digits \ {"0"}
            /\ s[i + 1] \in Lower
            /\ IsAt(s, i + 2, <<"2", ",", "6">>)
         THEN RemoveOrdinalFrom(s, i + 5)
    ELSE <<s[i]>> \o RemoveOrdinalFrom(s, i + 1)

RECURSIVE SubAlternativesFrom(_, _, _)
\* re.sub(r"\b(alt1|alt2|...)\b", "", s)
SubAlternativesFrom(s, i, alts) ==
    IF i > Len(s) THEN <<>>
    ELSE LET fits(n) == /\ IsAt(s, i, alts[n])
                        /\ IsBoundary(s, i)
                        /\ IsBoundary(s, i + Len(alts[n]))
         IN IF \E n \in 1..Len(alts) : fits(n)
            THEN LET n == CHOOSE m \in 1..Len(alts) :
                              fits(m) /\ \A h \in 1..(m - 1) : ~fits(h)
                 IN SubAlternativesFrom(s, i + Len(alts[n]), alts)
            ELSE <<s[i]>> \o SubAlternativesFrom(s, i + 1, alts)

MapWords(words, F(_)) == [i \in 1..Len(words) |-> F(words[i])]

\* ' '.join(re.sub(r'\b(ii|iii|iv)\b', '', word) for word in s.split())
RemoveRomanNumerals(s) ==
    LET F(word) ==
            SubAlternativesFrom(word, 1, <<Literal.ii, Literal.iii, Literal.iv>>)
    IN Join(MapWords(Split(s), F))

\* the substitutions of _cleanNameByItself after the ascii normalisation, in
\* the order of the code: <<kind, old, new>>
NameCleanSteps ==
    << <<"punctuation">>, <<"apostrophe">>,
       \* jr and sr
       <<"word", Literal.jr, <<>>>>, <<"replace", Literal.bjuniorb, <<>>>>,
       <<"word", Literal.sr, <<>>>>, <<"replace", Literal.bseniorb, <<>>>>,
       \* titles
       <<"word", Literal.prof, <<>>>>, <<"replace", Literal.bprofessorb, <<>>>>,
       <<"word", Literal.mr, <<>>>>, <<"replace", Literal.bmisterb, <<>>>>,
       <<"word", Literal.mrs, <<>>>>, <<"replace", Literal.bmissusb, <<>>>>,
       <<"word", Literal.ms, <<>>>>, <<"replace", Literal.bmissb, <<>>>>,
       <<"word", Literal.dr, <<>>>>, <<"replace", Literal.bdoctorb, <<>>>>,
       <<"word", Literal.student, <<>>>>,
       <<"word", Literal.rev, <<>>>>,
       <<"replace", Literal.reverend, <<>>>>,
       \* family relations
       <<"word", Literal.sister, <<>>>>,
       <<"word", Literal.brother, <<>>>>,
       <<"word", Literal.mother, <<>>>>,
       <<"word", Literal.father, <<>>>>,
       <<"replace", Literal.sp_in_law, <<" ">>>>,
       <<"replace", Literal.head_of_household, <<>>>>,
       <<"spaces">>,
       \* 'the 3rd', roman numerals
       <<"ordinal">>,
       <<"replace", Literal.sp_the_sp, <<>>>>,
       <<"roman">>, <<"spaces">>, <<"strip">>,
       <<"replace", Literal.no_suffix, <<>>>>,
       \* Dutch names
       <<"wordStart", Literal.van_de, Literal.vande>>,
       <<"wordStart", Literal.van_den, Literal.vanden>>,
       <<"wordStart", Literal.van_der, Literal.vander>>,
       <<"spaces">>, <<"strip">> >>

RECURSIVE ApplyNameCleanSteps(_, _, _)
\* NameCleanSteps[lo..hi] applied to s in order; no step changes the empty
\* string.  (s is looked at first and the range is halved so that the
\* evaluation does not nest once per step.)
ApplyNameCleanSteps(s, lo, hi) ==
    LET step == NameCleanSteps[lo]
        mid == (lo + hi) \div 2
    IN IF s = <<>> \/ lo > hi THEN s
       ELSE IF lo < hi
       THEN ApplyNameCleanSteps(ApplyNameCleanSteps(s, lo, mid), mid + 1, hi)
       ELSE CASE step[1] = "punctuation" -> RemovePunctuation(s)
              [] step[1] = "apostrophe" -> ApostropheSpaces(s, 1)
              [] step[1] = "word" -> SubWord(s, step[2], step[3])
              [] step[1] = "wordStart" -> SubWordStart(s, step[2], step[3])
              [] step[1] = "replace" -> Replace(s, step[2], step[3])
              [] step[1] = "spaces" -> CollapseSpaces(s)
              [] step[1] = "strip" -> Strip(s)
              [] step[1] = "ordinal" -> RemoveOrdinalFrom(s, 1)
              [] step[1] = "roman" -> RemoveRomanNumerals(s)

CleanNameByItself(name) ==
    IF name = <<>> \/ name = NonString THEN <<"_">>
    ELSE LET \* deal with whitespace, standardize into ascii
             Standardized(s) ==
                 IF s = <<>> THEN <<"_">>
                 ELSE ApplyNameCleanSteps(s, 1, Len(NameCleanSteps))
         IN Standardized(ToLower(Unidecode(Strip(CollapseSpaces(TabsToSpaces(name))))))

(***************************************************************************)
(* Reference data: the tables __init__ loads from jsonData.  The files are *)
(* data, not code; the model uses a small sample of each.                  *)
(***************************************************************************)

\* self.topSurnames
TopSurnames == {Literal.smith}

\* self.nicknameSets
NicknameSets == << <<Literal.robert, Literal.rob, Literal.bob>> >>

RECURSIVE Range(_)
Range(seq) == IF seq = <<>> THEN {} ELSE {seq[1]} \cup Range(Tail(seq))

AllNicknames == UNION {Range(NicknameSets[n]) : n \in 1..Len(NicknameSets)}

\* self.nicknameToNicknameSetNum.get(word): the (1-based) numbers of the sets
\* that hold word, ascending; <<>> stands for None
NicknameToNicknameSetNum(word) ==
    SelectSeq([n \in 1..Len(NicknameSets) |-> n],
              LAMBDA n : word \in Range(NicknameSets[n]))

\* _ipa_all_names.json
NamesToIpa ==
    <<"k", "a", "c", "i", "e">> :> <<"k", "e", "s", "i">>
    @@ <<"c", "a", "s", "e", "y">> :> <<"k", "e", "s", "i">>
    @@ <<"s", "m", "i", "t", "h">> :> <<"s", "m", "small-cap-i", "theta">>
    @@ <<"r", "o", "b", "e", "r", "t">> :> <<"r", "script-a", "b", "schwa", "r", "t">>
    @@ <<"a", "n", "n", "a">> :> <<"ash", "n", "schwa">>
    @@ <<"e", "m", "m", "a">> :> <<"epsilon", "m", "schwa">>

\* _ipa_common_word_parts.json
SyllableToIpa ==
    <<"t", "h">> :> <<"theta">>
    @@ <<"e", "e">> :> <<"i">>
    @@ <<"p", "h">> :> <<"f">>
    @@ <<"s", "h">> :> <<"esh">>
    @@ <<"c", "k">> :> <<"k">>
    @@ <<"a", "n">> :> <<"ash", "n">>
    @@ <<"e", "r">> :> <<"schwa", "r">>
    @@ <<"t", "i">> :> <<"esh">>
    @@ <<"h", "a">> :> <<"h", "script-a">>
    @@ <<"a", "t">> :> <<"ash", "t">>

\* an element of a rule as json.load returns it: a str, or a list or int
Str(s) == [isStr |-> TRUE, val |-> s]
NotStr(v) == [isStr |-> FALSE, val |-> v]


IpaReplacementRules ==
    Literal.consonant_or_break :>
        <<<<"-">>, <<"l">>, <<"d">>, <<"z">>, <<"b">>, <<"t">>, <<"k">>,
        <<"n">>, <<"s">>, <<"w">>, <<"v">>, <<"eth">>, <<"ezh">>,
        <<"tesh">>, <<"theta">>, <<"h">>, <<"g">>, <<"dezh">>, <<"eng">>,
        <<"p">>, <<"m">>, <<"esh">>, <<"f">>, <<"j">>, <<"r">>>>
    @@ Literal.consonant :>
        <<<<"l">>, <<"d">>, <<"z">>, <<"b">>, <<"t">>, <<"k">>, <<"n">>,
        <<"s">>, <<"w">>, <<"v">>, <<"eth">>, <<"ezh">>, <<"tesh">>,
        <<"theta">>, <<"h">>, <<"g">>, <<"dezh">>, <<"eng">>, <<"p">>,
        <<"m">>, <<"esh">>, <<"f">>, <<"j">>, <<"r">>>>
    @@ Literal.vowel :>
        <<<<"script-a">>, <<"a">>, <<"ash">>, <<"small-cap-i">>, <<"i">>,
        <<"epsilon">>, <<"e">>, <<"schwa">>, <<"open-o">>, <<"upsilon">>,
        <<"u">>, <<"o">>>>

SpellingReplacementRules ==
    Literal.consonant :>
        <<<<"b">>, <<"c">>, <<"d">>, <<"f">>, <<"g">>, <<"h">>, <<"j">>,
        <<"k">>, <<"l">>, <<"m">>, <<"n">>, <<"p">>, <<"q">>, <<"r">>,
        <<"s">>, <<"t">>, <<"v">>, <<"w">>, <<"x">>, <<"y">>, <<"z">>>>
    @@ Literal.vowel :>
        <<<<"a">>, <<"e">>, <<"i">>, <<"o">>, <<"u">>, <<"y">>>>
    @@ Literal.letter :>
        <<<<"a">>, <<"b">>, <<"c">>, <<"d">>, <<"e">>, <<"f">>, <<"g">>,
        <<"h">>, <<"i">>, <<"j">>, <<"k">>, <<"l">>, <<"m">>, <<"n">>,
        <<"o">>, <<"p">>, <<"q">>, <<"r">>, <<"s">>, <<"t">>, <<"u">>,
        <<"v">>, <<"w">>, <<"x">>, <<"y">>, <<"z">>>>
    @@ Literal.letter_or_break :>
        <<<<"-">>, <<"a">>, <<"b">>, <<"c">>, <<"d">>, <<"e">>, <<"f">>,
        <<"g">>, <<"h">>, <<"i">>, <<"j">>, <<"k">>, <<"l">>, <<"m">>,
        <<"n">>, <<"o">>, <<"p">>, <<"q">>, <<"r">>, <<"s">>, <<"t">>,
        <<"u">>, <<"v">>, <<"w">>, <<"x">>, <<"y">>, <<"z">>>>

\* the loops of __init__ over the rules: an item that is a str and a key of
\* replacementRules is replaced by the list it names
ExpandRules(rules, replacementRules) ==
    [r \in 1..Len(rules) |->
        [i \in 1..Len(rules[r]) |->
            IF rules[r][i].isStr /\ rules[r][i].val \in DOMAIN replacementRules
            THEN replacementRules[rules[r][i].val]
            ELSE rules[r][i].val]]

\* _rules_ipa.json
RawIpaRules ==
    << <<Str(<<"epsilon">>), Str(<<"small-cap-i">>), Str(Literal.consonant),
         Str(Literal.consonant_or_break), NotStr(3)>> >>

\* _rules_spelling.json
RawSpellingRules ==
    << <<Str(<<"p", "h">>), Str(<<"f">>), Str(Literal.letter_or_break), Str(Literal.letter_or_break),
         NotStr(4)>>,
       <<Str(<<"c", "k">>), Str(<<"k">>), Str(Literal.vowel),
         NotStr(<< <<"-">>, <<"s">> >>), NotStr(4)>> >>

IpaRules == ExpandRules(RawIpaRules, IpaReplacementRules)

SpellingRules == ExpandRules(RawSpellingRules, SpellingReplacementRules)

(***************************************************************************)
(* The gates                                                               *)
(***************************************************************************)
\* whether the alignment is empty
EitherNameEmpty(n0, n1) == Len(FindWhichWordsMatchAndHowWell(n0, n1)) < 1

EitherNameTooShort(n0, n1) ==
    LET shortestWordCount == Len(FindWhichWordsMatchAndHowWell(n0, n1))
    IN shortestWordCount < 2

\* name.split()[-1] raises IndexError when the name has no word
HasRareSurnameRaises(name) == Split(ToLower(name)) = <<>>

HasRareSurname(name) ==
    LET words == Split(ToLower(name))
        surname == words[Len(words)]
    IN surname \notin TopSurnames

\* `a and b` evaluates b only when a is true
EitherNameTooGenericRaises(n0, n1) ==
    \/ HasRareSurnameRaises(n0)
    \/ (HasRareSurname(n0) /\ HasRareSurnameRaises(n1))

\* the initials count alone, whatever the surnames
TooGenericIgnoringSurnames(n0, n1) ==
    LET wordCombo == FindWhichWordsMatchAndHowWell(n0, n1)
        words0 == Split(n0)
        words2 == Split(n1)
    IN Len(wordCombo) <= 1 + Cardinality({m \in 1..Len(wordCombo) :
                                \/ Len(words0[wordCombo[m][1] + 1]) = 1
                                \/ Len(words2[wordCombo[m][2] + 1]) = 1})

EitherNameTooGeneric(n0, n1) ==
    LET Generic(wordCombo, words0, words2) ==
            LET shortestWordCount == Len(wordCombo)
                nonInitialMatchCount ==
                    Cardinality({m \in 1..Len(wordCombo) :
                        \/ Len(words0[wordCombo[m][1] + 1]) = 1
                        \/ Len(words2[wordCombo[m][2] + 1]) = 1})
            IN shortestWordCount <= nonInitialMatchCount + 1
    IN IF HasRareSurname(n0) /\ HasRareSurname(n1) THEN FALSE
       ELSE Generic(FindWhichWordsMatchAndHowWell(n0, n1), Split(n0), Split(n1))

(***************************************************************************)
(* _removeNicknames                                                        *)
(***************************************************************************)
\* Iterating a Python set of str visits its members in hash order, which
\* differs from process to process; order lists all nicknames in the order
\* of the running process.
SetIteration(members, order) == SelectSeq(order, LAMBDA w : w \in members)

\* self.nicknameSets[num].remove(word0): the word taken out of the table itself
RemoveFromTable(sets, num, word0) ==
    [nicknames |-> Range(sets[num]) \ {word0},
     sets |-> [sets EXCEPT ![num] = SelectSeq(@, LAMBDA w : w # word0)]]

\* nicknames = set(self.nicknameSets[num]); nicknames.remove(word0): the
\* word is taken out of a copy, the table stays as it is
NicknamesWithout(sets, num, word0) ==
    [nicknames |-> Range(sets[num]) \ {word0}, sets |-> sets]

RECURSIVE TryNicknameSets(_, _, _, _, _, _, _)
\* for num in setNumbers: ... for nickname in nicknames: the first nickname
\* that is a word of name1 and not a word of both names ends both loops
TryNicknameSets(sets, setNumbers, k, word0, words0, words1, order) ==
    IF k > Len(setNumbers) THEN [breaking |-> FALSE, nickname |-> <<>>, sets |-> sets]
    ELSE Assign(NicknamesWithout(sets, setNumbers[k], word0), LAMBDA r :
             LET usable ==
                     SelectSeq(SetIteration(r.nicknames, order),
                         LAMBDA nickname :
                             /\ ~(nickname \in Range(words0) /\ nickname \in Range(words1))
                             /\ nickname \in Range(words1))
             IN IF usable # <<>>
                THEN [breaking |-> TRUE, nickname |-> usable[1], sets |-> r.sets]
                ELSE TryNicknameSets(r.sets, setNumbers, k + 1, word0, words0, words1,
                                     order))

RECURSIVE RemoveNicknamesFrom(_, _, _, _, _, _)
\* returns <<name0, the nickname table after the loop>>
RemoveNicknamesFrom(sets, n0, words0, words1, x, order) ==
    IF x > Len(words0) THEN <<n0, sets>>
    ELSE IF words0[x] \in Range(words1) \/ NicknameToNicknameSetNum(words0[x]) = <<>>
         THEN RemoveNicknamesFrom(sets, n0, words0, words1, x + 1, order)
    ELSE Assign(TryNicknameSets(sets, NicknameToNicknameSetNum(words0[x]), 1, words0[x],
                                words0, words1, order), LAMBDA r :
             RemoveNicknamesFrom(r.sets,
                                 IF r.breaking THEN SubWord(n0, words0[x], r.nickname)
                                 ELSE n0,
                                 words0, words1, x + 1, order))

\* returns <<name0, name1, the nickname table after the call>>
RemoveNicknames(sets, n0, n1, order) ==
    Assign(RemoveNicknamesFrom(sets, n0, Split(n0), Split(n1), 1, order), LAMBDA r :
        <<r[1], n1, r[2]>>)

(***************************************************************************)
(* _spellingComparison, _consonantComparison, _isWorthContinuing           *)
(***************************************************************************)
RECURSIVE CollapseRepeats(_, _)
\* re.sub(r'(.)\1+', r'\1', s)
CollapseRepeats(s, i) ==
    IF i > Len(s) THEN <<>>
    ELSE IF i > 1 /\ s[i] = s[i - 1] THEN CollapseRepeats(s, i + 1)
    ELSE <<s[i]>> \o CollapseRepeats(s, i + 1)

ReduceToSimpleConsonants(string) ==
    LET F(c) == IF c \in {"a", "e", "i", "o", "u", "y"} THEN <<"*">> ELSE <<c>>
        starred == MapChars(string, F)
    IN CollapseRepeats(Replace(starred, <<"*", "*">>, <<"*">>), 1)

CountChar(s, c) == Len(SelectSeq(s, LAMBDA x : x = c))

\* whether one pair of the alignment counts as a consonant match
IsConsonantMatch(word0, word1, originalScoreForWords) ==
    LET Verdict(consonantsRatio, lowestSyllableCount) ==
            /\ ~(originalScoreForWords <= 30)
            /\ ~(Len(word0) # 1 /\ Len(word1) # 1 /\ lowestSyllableCount < 2)
            /\ ~((consonantsRatio <= 80 \/ originalScoreForWords <= 60)
                   /\ consonantsRatio # 100)
        Compare(consonantsName0, consonantsName1) ==
            Verdict(Ratio(consonantsName0, consonantsName1),
                    Min(CountChar(consonantsName0, "*"),
                        CountChar(consonantsName1, "*")))
    IN Compare(ReduceToSimpleConsonants(word0), ReduceToSimpleConsonants(word1))

\* a consonant check that is content with every pair of the alignment
ConsonantAllPairs(n0, n1) ==
    LET Verdict(numWordConsonantMatches, minRequiredMatches) ==
            (numWordConsonantMatches >= minRequiredMatches)
                \/ (numWordConsonantMatches >= 3)
        Count(wordCombo, words0, words1) ==
            Verdict(Cardinality({m \in 1..Len(wordCombo) :
                        IsConsonantMatch(words0[wordCombo[m][1] + 1],
                                         words1[wordCombo[m][2] + 1],
                                         wordCombo[m][3])}),
                    Len(wordCombo))
    IN Assign(<<FindWhichWordsMatchAndHowWell(n0, n1), Split(n0), Split(n1)>>, LAMBDA a :
           Count(a[1], a[2], a[3]))

ConsonantComparison(n0, n1) ==
    LET Verdict(numWordConsonantMatches, minRequiredMatches) ==
            (numWordConsonantMatches > minRequiredMatches)
                \/ (numWordConsonantMatches >= 3)
        Count(wordCombo, words0, words1) ==
            Verdict(Cardinality({m \in 1..Len(wordCombo) :
                        IsConsonantMatch(words0[wordCombo[m][1] + 1],
                                         words1[wordCombo[m][2] + 1],
                                         wordCombo[m][3])}),
                    Len(wordCombo))
    IN Assign(<<FindWhichWordsMatchAndHowWell(n0, n1), Split(n0), Split(n1)>>, LAMBDA a :
           Count(a[1], a[2], a[3]))

\* a spelling check without the three-pairs rule
SpellingWithoutThree(n0, n1) ==
    LET Verdict(wordCombo, count, minLength) ==
            <<(count = minLength) \/ ConsonantComparison(n0, n1), wordCombo>>
        Count(wordCombo) ==
            Verdict(wordCombo,
                    Cardinality({m \in 1..Len(wordCombo) : wordCombo[m][3] > 80}),
                    Min(Len(Split(n0)), Len(Split(n1))))
    IN Assign(FindWhichWordsMatchAndHowWell(n0, n1), Count)

\* returns <<match, wordCombo>>
SpellingComparison(n0, n1) ==
    LET Verdict(wordCombo, count, minLength) ==
            <<(count >= 3) \/ (count = minLength) \/ ConsonantComparison(n0, n1),
              wordCombo>>
        Count(wordCombo) ==
            Verdict(wordCombo,
                    Cardinality({m \in 1..Len(wordCombo) : wordCombo[m][3] > 80}),
                    Min(Len(Split(n0)), Len(Split(n1))))
    IN Assign(FindWhichWordsMatchAndHowWell(n0, n1), Count)

IsWorthContinuing(n0, n1) ==
    LET \* name0[int(match[0])] is a character of the name, not a word of it
        Worth(wordCombo) ==
            LET oneLetterMatchFailCount ==
                    Cardinality({m \in 1..Len(wordCombo) :
                        /\ wordCombo[m][3] = 0
                        /\ (Len(<<n0[wordCombo[m][1] + 1]>>) = 1
                              \/ Len(<<n1[wordCombo[m][2] + 1]>>) = 1)})
            IN ~((oneLetterMatchFailCount >= 1) /\ (Len(wordCombo) <= 3))
    IN Assign(FindWhichWordsMatchAndHowWell(n0, n1), Worth)

(***************************************************************************)
(* Helpers of the pair-aware cleaner                                       *)
(***************************************************************************)
\* a pair of names, or the exception an operation on a pair raised
Pair(n0, n1) == [raised |-> FALSE, n0 |-> n0, n1 |-> n1]
RaisedPair == [raised |-> TRUE, n0 |-> <<>>, n1 |-> <<>>]

\* _calculateEditImprovement: diff is num / den; the averages divide by the
\* lengths of the two alignments (ZeroDivisionError when one is empty)
CalculateEditImprovement(n0, n1, n0Edited, n1Edited) ==
    Assign(FindWhichWordsMatchAndHowWell(n0, n1), LAMBDA ogWordCombo :
    Assign(FindWhichWordsMatchAndHowWell(n0Edited, n1Edited), LAMBDA editedWordCombo :
        [raised |-> Len(ogWordCombo) = 0 \/ Len(editedWordCombo) = 0,
         num |-> SumScores(editedWordCombo) * Len(ogWordCombo)
                     - SumScores(ogWordCombo) * Len(editedWordCombo),
         den |-> Len(ogWordCombo) * Len(editedWordCombo)]))

RECURSIVE MatchIndicesWithWords(_, _, _, _)
MatchIndicesWithWords(combination, words0, words1, m) ==
    IF m > Len(combination) THEN <<>>
    ELSE << <<combination[m][1], combination[m][2],
              words0[combination[m][1] + 1], words1[combination[m][2] + 1]>> >>
             \o MatchIndicesWithWords(combination, words0, words1, m + 1)

\* _getPairIndicesAndWords: tuples <<index0, index1, word0, word1>>
GetPairIndicesAndWords(n0, n1) ==
    Assign(FindWhichWordsMatchAndHowWell(n0, n1), LAMBDA wordCombo :
        MatchIndicesWithWords(wordCombo, Split(n0), Split(n1), 1))

\* NameEditor.updateName0 / updateName1 on a list of words
UpdateWord(words, index, updatedWord) == SetItem(words, index, updatedWord)

(***************************************************************************)
(* _combineSplitWords: returns <<combined, name0, name1>>                  *)
(***************************************************************************)
RECURSIVE CombineSplitWordsLoop(_, _, _, _)
CombineSplitWordsLoop(n0, n1, pairs, m) ==
    IF m > Len(pairs) THEN <<FALSE, n0, n1>>
    ELSE LET continue == CombineSplitWordsLoop(n0, n1, pairs, m + 1)
             Neighbor(raw) == IF Len(raw) > 1 THEN raw ELSE <<>>
             Decide(n0Edited, improvement) ==
                 IF improvement.num > 0 - improvement.den THEN <<TRUE, n0Edited, n1>>
                 ELSE continue
             Improve(n0Edited) ==
                 Assign(CalculateEditImprovement(n0, n1, n0Edited, n1),
                        LAMBDA improvement : Decide(n0Edited, improvement))
             Compound(words0, index0, word0, word1, chosenNeighbor, compound, indexN) ==
                 LET ogScore == Ratio(word0, word1)
                     compoundScore == Ratio(compound, word1)
                     diffLength0 == Abs(Len(word1) - Len(word0))
                     diffLengthCompound == Abs(Len(word1) - Len(compound))
                 IN IF \/ PartialRatio(chosenNeighbor, word1) < 65
                       \/ compoundScore < ogScore + 20
                       \/ diffLength0 < diffLengthCompound
                    THEN continue
                    ELSE Assign(Join(UpdateWord(UpdateWord(words0, index0, compound),
                                                indexN, <<>>)), Improve)
             Chosen(words0, index0, word0, word1, leftNeighbor, rightNeighbor,
                    leftWasChosen) ==
                 Assign(<<IF leftWasChosen THEN leftNeighbor ELSE rightNeighbor,
                          IF leftWasChosen THEN leftNeighbor \o word0
                          ELSE word0 \o rightNeighbor,
                          IF leftWasChosen THEN index0 - 1 ELSE index0 + 1>>,
                        LAMBDA c : Compound(words0, index0, word0, word1,
                                            c[1], c[2], c[3]))
             Neighbors(words0, index0, word0, word1, leftNeighbor, rightNeighbor) ==
                 IF PartialRatio(word0, word1) < 75 \/ Len(word0) = 1 \/ Len(word1) = 1
                 THEN continue
                 ELSE IF leftNeighbor = <<>> /\ rightNeighbor = <<>> THEN <<FALSE, n0, n1>>
                 ELSE Assign(IF leftNeighbor = <<>> THEN FALSE
                             ELSE IF rightNeighbor = <<>> THEN TRUE
                             ELSE PartialRatio(leftNeighbor, word1)
                                      > PartialRatio(rightNeighbor, word1),
                             LAMBDA leftWasChosen :
                                 Chosen(words0, index0, word0, word1, leftNeighbor,
                                        rightNeighbor, leftWasChosen))
             Body(words0, index0) ==
                 Assign(<<pairs[m][3], pairs[m][4],
                          Neighbor(IF index0 - 1 >= 0 THEN words0[index0] ELSE <<>>),
                          Neighbor(IF index0 + 1 < Len(words0)
                                   THEN words0[index0 + 2] ELSE <<>>)>>,
                        LAMBDA b : Neighbors(words0, index0, b[1], b[2], b[3], b[4]))
         IN Assign(<<Split(n0), pairs[m][1]>>, LAMBDA a : Body(a[1], a[2]))

\* _combineSplitWords without the test on the number of words of name0
CombineSplitWordsOfTwo(n0, n1) ==
    IF SpellingComparison(n0, n1)[1] THEN <<FALSE, n0, n1>>
    ELSE Assign(GetPairIndicesAndWords(n0, n1),
                LAMBDA pairs : CombineSplitWordsLoop(n0, n1, pairs, 1))

CombineSplitWords(n0, n1) ==
    IF Len(Split(n0)) < 3 THEN <<FALSE, n0, n1>>
    ELSE IF SpellingComparison(n0, n1)[1] THEN <<FALSE, n0, n1>>
    ELSE Assign(GetPairIndicesAndWords(n0, n1),
                LAMBDA pairs : CombineSplitWordsLoop(n0, n1, pairs, 1))

RECURSIVE CombineUntilFixed(_, _)
\* while True: combined, name0, name1 = _combineSplitWords(name0, name1)
CombineUntilFixed(n0, n1) ==
    LET Again(r) == IF r[1] THEN CombineUntilFixed(r[2], r[3]) ELSE <<r[2], r[3]>>
    IN Assign(CombineSplitWords(n0, n1), Again)

(***************************************************************************)
(* _dealWithDashes                                                         *)
(***************************************************************************)

DealWithDashes(n0, n1) ==
    IF ~Contains(n0, Literal.dash) /\ ~Contains(n1, Literal.dash) THEN Pair(n0, n1)
    ELSE IF Contains(n0, Literal.dash) /\ Contains(n1, Literal.dash) THEN Pair(n0, n1)
    ELSE LET Keep(n0Edited, n1Edited, diff) ==
                 IF diff.raised THEN RaisedPair
                 ELSE IF diff.num <= 0 THEN Pair(n0, n1)
                 ELSE Pair(n0Edited, n1Edited)
             Improve(n0Edited, n1Edited) ==
                 Keep(n0Edited, n1Edited,
                      CalculateEditImprovement(n0, n1, n0Edited, n1Edited))
             Edit(combined) == Improve(combined[2], combined[3])
         IN Edit(CombineSplitWords(Replace(n0, Literal.dash, <<" ">>),
                                   Replace(n1, Literal.dash, <<" ">>)))

(***************************************************************************)
(* _fixRelatedPrefixes, _fixMcMac, _removeIrishO                           *)
(***************************************************************************)
FixRelatedPrefixes(n0, n1, prefixA, prefixB) ==
    LET spA == <<" ">> \o prefixA
        spB == <<" ">> \o prefixB
    IN IF ~Contains(n0, spA) /\ ~Contains(n1, spA) THEN Pair(n0, n1)
       ELSE IF ~Contains(n0, spB) /\ ~Contains(n1, spB) THEN Pair(n0, n1)
       ELSE IF Contains(n0, spA) /\ Contains(n1, spA) THEN Pair(n0, n1)
       ELSE IF Contains(n0, spB) /\ Contains(n1, spB) THEN Pair(n0, n1)
       ELSE IF Contains(n0, spB) THEN Pair(Replace(n0, spB, spA), n1)
       ELSE Pair(n0, Replace(n1, spB, spA))


RECURSIVE FixMcMacLoop(_, _, _, _)
\* the body of the loop over the pairs for one prefix; ne is <<words0, words1>>
FixMcMacLoop(ne, pairs, m, prefix) ==
    IF m > Len(pairs) THEN ne
    ELSE LET index0 == pairs[m][1]
             index1 == pairs[m][2]
             word0 == pairs[m][3]
             word1 == pairs[m][4]
             updatedWord0 == IF StartsWith(word0, prefix)
                             THEN ReplaceFirst(word0, prefix, <<>>) ELSE word0
             updatedWord1 == IF StartsWith(word0, prefix)
                             THEN word1 ELSE ReplaceFirst(word1, prefix, <<>>)
             skip == \/ (StartsWith(word0, prefix) /\ StartsWith(word1, prefix))
                     \/ (~StartsWith(word0, prefix) /\ ~StartsWith(word1, prefix))
                     \/ (index0 < 1 \/ index1 < 1)
                     \/ Min(Len(word0), Len(word1)) < 3
                     \/ Ratio(word0, word1) > 80
                     \/ Ratio(updatedWord0, updatedWord1) < 75
         IN IF skip THEN FixMcMacLoop(ne, pairs, m + 1, prefix)
            ELSE FixMcMacLoop(<<UpdateWord(ne[1], index0, updatedWord0),
                                UpdateWord(ne[2], index1, updatedWord1)>>,
                              pairs, m + 1, prefix)

FixMcMac(n0, n1) ==
    IF /\ ~Contains(n0, Literal.mc) /\ ~Contains(n0, Literal.mac)
       /\ ~Contains(n1, Literal.mc) /\ ~Contains(n1, Literal.mac)
    THEN Pair(n0, n1)
    ELSE LET Result(ne) == Pair(Join(ne[1]), Join(ne[2]))
             Loops(ne, pairs) ==
                 Result(FixMcMacLoop(FixMcMacLoop(ne, pairs, 1, Literal.mc),
                                     pairs, 1, Literal.mac))
             Edit(combined) ==
                 Loops(<<Split(combined[2]), Split(combined[3])>>,
                       GetPairIndicesAndWords(combined[2], combined[3]))
         IN Edit(CombineSplitWords(n0, n1))

\* one name of _removeIrishO
RemoveIrishOFromName(name, surname) ==
    LET words == Split(name)
        lastname == words[Len(words)]
    IN IF Ratio(lastname, surname) > 75
       THEN IF lastname[1] = "o" THEN Replace(name, lastname, surname)
            ELSE Replace(name, <<"o", " ">> \o lastname, surname)
       ELSE name

RemoveIrishO(n0, n1, surname) ==
    IF /\ ~Contains(n0, <<" ", "o", " ">>) /\ ~Contains(n0, <<" ", "o">>)
       /\ ~Contains(n1, <<" ", "o">>) /\ ~Contains(n1, <<" ", "o", " ">>)
    THEN Pair(n0, n1)
    ELSE IF ~Contains(n0, surname) /\ ~Contains(n1, surname) THEN Pair(n0, n1)
    ELSE IF Split(n0) = <<>> \/ Split(n1) = <<>> THEN RaisedPair
    ELSE Pair(RemoveIrishOFromName(n0, surname), RemoveIrishOFromName(n1, surname))

(***************************************************************************)
(* _removeUnnecessaryPrefixes                                              *)
(***************************************************************************)
RECURSIVE WordRunLen(_, _)
\* the run of \w characters of s that starts at position i
WordRunLen(s, i) ==
    IF i <= Len(s) /\ IsWordChar(s[i]) THEN 1 + WordRunLen(s, i + 1) ELSE 0

\* where re.search(r'\b{spacePrefix}\w*\b', s) can match
PrefixedWordAt(s, i, spacePrefix) ==
    /\ IsAt(s, i, spacePrefix)
    /\ IsBoundary(s, i)
    /\ IsBoundary(s, i + Len(spacePrefix) + WordRunLen(s, i + Len(spacePrefix)))

HasPrefixedWord(s, spacePrefix) ==
    \E i \in 1..Len(s) : PrefixedWordAt(s, i, spacePrefix)

\* len(match.group()) of the leftmost match
PrefixedWordLen(s, spacePrefix) ==
    LET i == CHOOSE h \in 1..Len(s) :
                 /\ PrefixedWordAt(s, h, spacePrefix)
                 /\ \A g \in 1..(h - 1) : ~PrefixedWordAt(s, g, spacePrefix)
    IN Len(spacePrefix) + WordRunLen(s, i + Len(spacePrefix))

RECURSIVE StripPrefixLoop(_, _, _, _)
\* the final loop: a word that is its partner plus the prefix loses the prefix
StripPrefixLoop(ne, pairs, m, prefix) ==
    IF m > Len(pairs) THEN ne
    ELSE LET index0 == pairs[m][1]
             index1 == pairs[m][2]
             word0 == pairs[m][3]
             word1 == pairs[m][4]
         IN IF StartsWith(word0, prefix) /\ Drop(word0, Len(prefix)) = word1
               /\ Len(word1) > 2
            THEN StripPrefixLoop(<<UpdateWord(ne[1], index0, Drop(word0, Len(prefix))), ne[2]>>,
                                 pairs, m + 1, prefix)
            ELSE IF StartsWith(word1, prefix) /\ Drop(word1, Len(prefix)) = word0
                    /\ Len(word0) > 2
            THEN StripPrefixLoop(<<ne[1], UpdateWord(ne[2], index1, Drop(word1, Len(prefix)))>>,
                                 pairs, m + 1, prefix)
            ELSE StripPrefixLoop(ne, pairs, m + 1, prefix)

RemoveUnnecessaryPrefixes(name0In, name1In, prefix) ==
    LET spPrefixSp == <<" ">> \o prefix \o <<" ">>
        spacePrefix == <<" ">> \o prefix
        Result(ne) == Pair(Join(ne[1]), Join(ne[2]))
        Decide(n0, n1, n0Edited, n1Edited, improvement) ==
            IF improvement.raised THEN RaisedPair
            ELSE IF \/ improvement.num >= 10 * improvement.den
                    \/ (SpellingComparison(n0Edited, n1Edited)[1]
                           /\ ~SpellingComparison(n0, n1)[1])
                 THEN Pair(n0Edited, n1Edited)
            ELSE Result(StripPrefixLoop(<<Split(n0), Split(n1)>>,
                                        GetPairIndicesAndWords(n0, n1), 1, prefix))
        Improve(n0, n1, n0Edited, n1Edited) ==
            Assign(CalculateEditImprovement(n0, n1, n0Edited, n1Edited),
                   LAMBDA improvement : Decide(n0, n1, n0Edited, n1Edited, improvement))
        Search(n0, n1, b0, b1, noEdits, only0, only1) ==
            \* match.group() on a failed search
            IF /\ noEdits
               /\ \/ (only0 /\ ~HasPrefixedWord(n0, spacePrefix))
                  \/ (only1 /\ ~HasPrefixedWord(n1, spacePrefix))
            THEN RaisedPair
            ELSE Assign(<<IF noEdits /\ only0
                             /\ PrefixedWordLen(n0, spacePrefix) > Len(prefix) + 4
                          THEN Replace(n0, spacePrefix, <<" ">>) ELSE b0,
                          IF noEdits /\ only1
                             /\ PrefixedWordLen(n1, spacePrefix) > Len(prefix) + 4
                          THEN Replace(n1, spacePrefix, <<" ">>) ELSE b1>>,
                        LAMBDA edited : Improve(n0, n1, edited[1], edited[2]))
        Edited(n0, n1, b0, b1, only0) ==
            Search(n0, n1, b0, b1, (n0 = b0) /\ (n1 = b1), only0,
                   ~only0 /\ Contains(n1, spacePrefix) /\ ~Contains(n0, spacePrefix))
        Different(n0, n1, a0, a1) ==
            Assign(<<CollapseWhitespace(Replace(a0, spPrefixSp, <<" ">>)),
                     CollapseWhitespace(Replace(a1, spPrefixSp, <<" ">>))>>,
                   LAMBDA b : Edited(n0, n1, b[1], b[2],
                                     Contains(n0, spacePrefix) /\ ~Contains(n1, spacePrefix)))
        Collapsed(n0, n1) ==
            IF ~Contains(n0, spacePrefix) /\ ~Contains(n1, spacePrefix) THEN Pair(n0, n1)
            ELSE \* make the edited names different
                 Different(n0, n1,
                     IF Contains(n0, spPrefixSp) /\ Contains(n1, spPrefixSp) THEN n0
                     ELSE IF Contains(n0, spPrefixSp) /\ Contains(n1, spacePrefix)
                          THEN Replace(n0, spPrefixSp, spacePrefix)
                     ELSE n0,
                     IF Contains(n0, spPrefixSp) /\ Contains(n1, spPrefixSp) THEN n1
                     ELSE IF Contains(n0, spPrefixSp) /\ Contains(n1, spacePrefix) THEN n1
                     ELSE IF Contains(n0, spacePrefix) /\ Contains(n1, spPrefixSp)
                          THEN Replace(n1, spPrefixSp, spacePrefix)
                     ELSE n1)
    IN Assign(<<CollapseWhitespace(name0In), CollapseWhitespace(name1In)>>,
              LAMBDA collapsed : Collapsed(collapsed[1], collapsed[2]))

(***************************************************************************)
(* _combinePrefixWithSurnameifInBoth                                       *)
(***************************************************************************)
\* re.search(f' {prefix} .', name)
HasPrefixThenChar(name, prefix) ==
    \E i \in 1..Len(name) :
        IsAt(name, i, <<" ">> \o prefix \o <<" ">>) /\ i + Len(prefix) + 2 <= Len(name)

CombinePrefixWithSurnameifInBoth(n0, n1, prefix) ==
    LET spPrefixSp == <<" ">> \o prefix \o <<" ">>
        spacePrefix == <<" ">> \o prefix
        \* name[name.index(f' {prefix} ') + 4]
        letter0 == n0[IndexOf(n0, spPrefixSp) + 4]
        letter1 == n1[IndexOf(n1, spPrefixSp) + 4]
    IN IF ~HasPrefixThenChar(n0, prefix) \/ ~HasPrefixThenChar(n1, prefix)
       THEN Pair(n0, n1)
       ELSE IF letter0 = letter1
            THEN Pair(Replace(n0, spPrefixSp, spacePrefix),
                      Replace(n1, spPrefixSp, spacePrefix))
       ELSE Pair(n0, n1)

(***************************************************************************)
(* _cleanNamesTogether                                                     *)
(***************************************************************************)
ONames ==
    <<<<"b", "e", "i", "r", "n", "e">>,
      <<"b", "e", "r", "r", "y">>,
      <<"b", "o", "y", "l", "e">>,
      <<"b", "r", "y", "a", "n", "t">>,
      <<"b", "r", "i", "a", "n">>,
      <<"b", "r", "i", "e", "n">>,
      <<"b", "r", "y", "a", "n">>,
      <<"c", "e", "a", "l", "l", "a", "i", "g", "h">>,
      <<"c", "o", "n", "n", "e", "r">>,
      <<"c", "o", "n", "n", "o", "r">>,
      <<"c", "o", "n", "o", "r">>,
      <<"d", "a", "n", "i", "e", "l">>,
      <<"d", "a", "y">>,
      <<"d", "e", "a", "n">>,
      <<"d", "e", "a">>,
      <<"d", "o", "h", "e", "r", "t", "y">>,
      <<"d", "o", "n", "n", "e", "l", "l">>,
      <<"d", "o", "n", "n", "e", "l">>,
      <<"d", "o", "n", "o", "g", "h", "u", "e">>,
      <<"d", "o", "n", "o", "h", "u", "e">>,
      <<"d", "o", "n", "o", "v", "a", "n">>,
      <<"d", "o", "w", "d">>,
      <<"d", "r", "i", "s", "c", "o", "l", "l">>,
      <<"f", "a", "l", "l", "o", "n">>,
      <<"f", "a", "r", "r", "e", "l", "l">>,
      <<"f", "l", "a", "h", "e", "r", "t", "y">>,
      <<"f", "l", "a", "n", "a", "g", "a", "n">>,
      <<"f", "l", "y", "n", "n">>,
      <<"g", "a", "r", "a">>,
      <<"g", "o", "r", "m", "a", "n">>,
      <<"g", "r", "a", "d", "y">>,
      <<"g", "u", "i", "n", "n">>,
      <<"g", "u", "i", "n">>,
      <<"h", "a", "g", "a", "n">>,
      <<"h", "a", "i", "r", "e">>,
      <<"h", "a", "i", "r">>,
      <<"h", "a", "l", "l", "o", "r", "a", "n">>,
      <<"h", "a", "n", "l", "o", "n">>,
      <<"h", "a", "r", "a">>,
      <<"h", "a", "r", "e">>,
      <<"h", "a", "r", "r", "a">>,
      <<"h", "a", "r", "r", "o", "w">>,
      <<"h", "a", "v", "e", "r">>,
      <<"h", "e", "a", "r", "n">>,
      <<"h", "e", "r", "n">>,
      <<"h", "e", "r", "r", "o", "n">>,
      <<"h", "i", "g", "g", "i", "n", "s">>,
      <<"h", "o", "r", "a">>,
      <<"k", "a", "n", "e">>,
      <<"k", "e", "e", "f", "e">>,
      <<"k", "e", "e", "f", "f", "e">>,
      <<"k", "e", "l", "l", "e", "y">>,
      <<"k", "e", "l", "l", "y">>,
      <<"l", "a", "u", "g", "h", "l", "i", "n">>,
      <<"l", "e", "a", "r", "y">>,
      <<"l", "o", "u", "g", "h", "l", "i", "n">>,
      <<"m", "a", "h", "o", "n", "e", "y">>,
      <<"m", "a", "h", "o", "n", "y">>,
      <<"m", "a", "l", "e", "y">>,
      <<"m", "a", "l", "l", "e", "y">>,
      <<"m", "a", "r", "a">>,
      <<"m", "a", "r", "y">>,
      <<"m", "e", "a", "r", "a">>,
      <<"m", "e", "l", "i", "a">>,
      <<"m", "o", "o", "r", "e">>,
      <<"m", "o", "r", "e">>,
      <<"m", "u", "i", "r">>,
      <<"m", "u", "r", "c", "h", "u">>,
      <<"m", "u", "r", "e">>,
      <<"m", "u", "r", "p", "h", "y">>,
      <<"n", "e", "a", "l", "l">>,
      <<"n", "e", "a", "l">>,
      <<"n", "e", "i", "l", "l">>,
      <<"n", "e", "i", "l">>,
      <<"n", "e", "y">>,
      <<"n", "i", "a", "l", "l">>,
      <<"q", "u", "i", "n", "n">>,
      <<"r", "e", "g", "a", "n">>,
      <<"r", "e", "i", "l", "l", "y">>,
      <<"r", "i", "l", "e", "y">>,
      <<"r", "i", "o", "r", "d", "a", "n">>,
      <<"r", "o", "a", "r", "k">>,
      <<"r", "o", "r", "k", "e">>,
      <<"r", "o", "u", "r", "k", "e">>,
      <<"r", "y", "a", "n">>,
      <<"s", "h", "a", "u", "g", "h", "n", "e", "s", "s", "y">>,
      <<"s", "h", "e", "a">>,
      <<"s", "h", "i", "e", "l", "d", "s">>,
      <<"s", "u", "l", "l", "i", "v", "a", "n">>,
      <<"t", "o", "o", "l", "e">>,
      <<"t", "o", "o", "l">>>>

UnnecessaryPrefixes ==
    <<<<"d", "'">>,
      <<"d", "e">>,
      <<"f", "i">>,
      <<"s", "a", "n", "t", "a">>,
      <<"s", "a", "n">>,
      <<"d", "e", " ", "l", "a">>,
      <<"d", "e", " ", "l", "o", "s">>,
      <<"d", "e", "l">>,
      <<"l", "a">>,
      <<"l", "e">>,
      <<"d", "u">>,
      <<"d", "e", "l", "a">>,
      <<"l", "o", "s">>,
      <<"d", "e", "r">>,
      <<"d", "e", "n">>,
      <<"v", "a", "n", "d", "e", "n">>,
      <<"v", "a", "n", "d", "e", "r">>,
      <<"v", "a", "n", "d", "e">>,
      <<"v", "a", "n">>,
      <<"v", "o", "n">>>>


\* the calls of _cleanNamesTogether before the split-word loops, in order
CleanSteps ==
    << <<"dashes">>, <<"related", Literal.mac, Literal.mc>>, <<"mcmac">> >>
    \o [n \in 1..Len(ONames) |-> <<"irishO", ONames[n]>>]
    \o << <<"related", Literal.de, Literal.di>>, <<"related", Literal.del, Literal.dil>> >>
    \o [n \in 1..Len(UnnecessaryPrefixes) |-> <<"unnecessary", UnnecessaryPrefixes[n]>>]
    \o << <<"combinePrefix", Literal.de>>, <<"combinePrefix", Literal.van>> >>

ApplyCleanStep(step, n0, n1) ==
    CASE step[1] = "dashes" -> DealWithDashes(n0, n1)
      [] step[1] = "related" -> FixRelatedPrefixes(n0, n1, step[2], step[3])
      [] step[1] = "mcmac" -> FixMcMac(n0, n1)
      [] step[1] = "irishO" -> RemoveIrishO(n0, n1, step[2])
      [] step[1] = "unnecessary" -> RemoveUnnecessaryPrefixes(n0, n1, step[2])
      [] step[1] = "combinePrefix" -> CombinePrefixWithSurnameifInBoth(n0, n1, step[2])

RECURSIVE ApplyCleanSteps(_, _, _, _)
\* steps[lo..hi] applied in order; an exception ends the sequence.  (The
\* range is halved so that the evaluation does not nest once per step.)
ApplyCleanSteps(p, steps, lo, hi) ==
    IF p.raised \/ lo > hi THEN p
    ELSE IF lo = hi THEN ApplyCleanStep(steps[lo], p.n0, p.n1)
    ELSE LET mid == (lo + hi) \div 2
         IN ApplyCleanSteps(ApplyCleanSteps(p, steps, lo, mid), steps, mid + 1, hi)

CleanNamesTogether(n0, n1) ==
    IF n0 = <<>> \/ n1 = <<>> THEN Pair(n0, n1)
    ELSE Assign(ApplyCleanSteps(Pair(n0, n1), CleanSteps, 1, Len(CleanSteps)), LAMBDA p :
         IF p.raised THEN RaisedPair
         ELSE \* combine words that are one word in the other name
              Assign(CombineUntilFixed(p.n0, p.n1), LAMBDA first :
              Assign(CombineUntilFixed(first[2], first[1]), LAMBDA second :
                  Pair(Strip(CollapseWhitespace(second[2])),
                       Strip(CollapseWhitespace(second[1]))))))

(***************************************************************************)
(* _modifyNamesTogether and its repairs                                    *)
(***************************************************************************)

RECURSIVE LetterRunLen(_, _)
\* the run of [a-z] characters of s that starts at position i
LetterRunLen(s, i) ==
    IF i <= Len(s) /\ s[i] \in Lower THEN 1 + LetterRunLen(s, i + 1) ELSE 0

RECURSIVE RemoveWordBeforeOr(_, _)
\* re.sub("[a-z]+ or ", " ", s)
RemoveWordBeforeOr(s, i) ==
    IF i > Len(s) THEN <<>>
    ELSE LET run == LetterRunLen(s, i)
         IN IF run >= 1 /\ IsAt(s, i + run, Literal.sp_or_sp)
            THEN <<" ">> \o RemoveWordBeforeOr(s, i + run + 4)
            ELSE <<s[i]>> \o RemoveWordBeforeOr(s, i + 1)

RECURSIVE RemoveWordAfterOr(_, _)
\* re.sub(" or [a-z]+", " ", s)
RemoveWordAfterOr(s, i) ==
    IF i > Len(s) THEN <<>>
    ELSE LET run == LetterRunLen(s, i + 4)
         IN IF IsAt(s, i, Literal.sp_or_sp) /\ run >= 1
            THEN <<" ">> \o RemoveWordAfterOr(s, i + 4 + run)
            ELSE <<s[i]>> \o RemoveWordAfterOr(s, i + 1)

\* the name with " or " of _removeOrInNames, against the other name
RemoveOrFrom(name, other) ==
    LET Better(editedA, wordComboA, editedB, wordComboB) ==
            \* averageScoreA >= averageScoreB
            IF SumScores(wordComboA) * Len(wordComboB)
                   >= SumScores(wordComboB) * Len(wordComboA)
            THEN editedA ELSE editedB
        Scored(editedA, editedB) ==
            Better(editedA, FindWhichWordsMatchAndHowWell(editedA, other),
                   editedB, FindWhichWordsMatchAndHowWell(editedB, other))
    IN Scored(RemoveWordBeforeOr(name, 1), RemoveWordAfterOr(name, 1))

RemoveOrInNames(name0In, name1In) ==
    LET Lowered(n0, n1) ==
            IF ~Contains(n0, Literal.sp_or_sp) /\ ~Contains(n1, Literal.sp_or_sp)
            THEN <<n0, n1>>
            ELSE IF Contains(n0, Literal.sp_or_sp) /\ Contains(n1, Literal.sp_or_sp)
            THEN <<n0, n1>>
            ELSE IF Contains(n0, Literal.sp_or_sp) THEN <<RemoveOrFrom(n0, n1), n1>>
            ELSE <<n0, RemoveOrFrom(n1, n0)>>
    IN Lowered(ToLower(name0In), ToLower(name1In))

NoIndex == 0 - 1

RECURSIVE VowelScan(_, _, _, _)
\* the loop over range(len0): <<tooManyDiffs, mismatchedIndex>>.  The test
\* `if mismatchedIndex:` is false for None and for index 0.
VowelScan(word0, word1, i, mismatchedIndex) ==
    IF i >= Len(word0) THEN <<FALSE, mismatchedIndex>>
    ELSE IF word0[i + 1] = word1[i + 1] THEN VowelScan(word0, word1, i + 1, mismatchedIndex)
    ELSE IF mismatchedIndex # NoIndex /\ mismatchedIndex # 0 THEN <<TRUE, mismatchedIndex>>
    ELSE VowelScan(word0, word1, i + 1, i)

Cooresponding == {<<"a", "o">>, <<"e", "a">>, <<"i", "y">>}

\* whether _fixVowelMistakes overwrites word0 with word1
FixesVowel(word0, word1) ==
    LET scan == VowelScan(word0, word1, 0, NoIndex)
        charWord0 == word0[scan[2] + 1]
        charWord1 == word1[scan[2] + 1]
    IN /\ Len(word0) >= 5
       /\ Len(word1) >= 5
       /\ Len(word0) = Len(word1)
       /\ ~scan[1]
       /\ scan[2] # NoIndex
       /\ (<<charWord0, charWord1>> \in Cooresponding
             \/ <<charWord1, charWord0>> \in Cooresponding)

\* whether _fixSwappedChars overwrites word0 with word1
FixesSwap(word0, word1) ==
    LET diffPositions == SelectSeq([i \in 1..Len(word0) |-> i - 1],
                                   LAMBDA i : word0[i + 1] # word1[i + 1])
        posI == diffPositions[1]
        posJ == diffPositions[2]
    IN /\ Len(word0) = 5
       /\ Len(word0) = Len(word1)
       /\ Ratio(word1, word0) = 80
       /\ Len(diffPositions) = 2
       /\ Abs(posI - posJ) = 1
       /\ ~(word0[posI + 1] # word1[posJ + 1] \/ word0[posI + 1] # word1[posJ + 1])

\* whether _dealWithWrongFirstChar overwrites word1 (its first word) with word2
FixesFirstChar(word1, word2) ==
    /\ word1 # word2
    /\ Drop(word1, 1) = Drop(word2, 1)
    /\ Len(word1) > 4
    /\ Len(word2) > 4

Fixes(repair, word0, word1) ==
    CASE repair = "vowel" -> FixesVowel(word0, word1)
      [] repair = "swap" -> FixesSwap(word0, word1)
      [] repair = "firstChar" -> FixesFirstChar(word0, word1)

RECURSIVE OverwriteLoop(_, _, _, _)
\* for index0, _, word0, word1 in pairs: ne.updateName0(index0, word1) when
\* the repair applies
OverwriteLoop(words0, pairs, m, repair) ==
    IF m > Len(pairs) THEN words0
    ELSE IF Fixes(repair, pairs[m][3], pairs[m][4])
         THEN OverwriteLoop(UpdateWord(words0, pairs[m][1], pairs[m][4]), pairs, m + 1, repair)
    ELSE OverwriteLoop(words0, pairs, m + 1, repair)

\* ne = NameEditor(name0, name1); the loop; return ne.getModifiedNames().
\* (A name without words has no pairs: the loop body never runs.)
Overwrite(n0, n1, repair) ==
    IF n0 = <<>> \/ n1 = <<>> THEN <<Join(Split(n0)), Join(Split(n1))>>
    ELSE <<Join(OverwriteLoop(Split(n0), GetPairIndicesAndWords(n0, n1), 1, repair)),
           Join(Split(n1))>>

FixVowelMistakes(n0, n1) == Overwrite(n0, n1, "vowel")

FixSwappedChars(n0, n1) == Overwrite(n0, n1, "swap")

DealWithWrongFirstChar(n0, n1) == Overwrite(n0, n1, "firstChar")

(***************************************************************************)
(* _replaceSubstringSandwichMeatIfMatchingBread                            *)
(* A rule is <<meatOption1, meatOption2, bottomBreadOptions,               *)
(* topBreadOptions, minRequiredLetters>>.                                  *)
(***************************************************************************)
NoMatch == <<NoIndex, NoIndex>>

\* re.search(bottomBread(meatOption1|meatOption2)topBread, word).span(),
\* 0-based; the leftmost position wins and meatOption1 is tried first
SandwichSearch(word, bottomBread, meat1, meat2, topBread) ==
    LET pattern1 == bottomBread \o meat1 \o topBread
        pattern2 == bottomBread \o meat2 \o topBread
        hits == {i \in 1..(Len(word) + 1) : IsAt(word, i, pattern1) \/ IsAt(word, i, pattern2)}
        first == CHOOSE i \in hits : \A j \in hits : i <= j
    IN IF hits = {} THEN NoMatch
       ELSE IF IsAt(word, first, pattern1) THEN <<first - 1, first - 1 + Len(pattern1)>>
       ELSE <<first - 1, first - 1 + Len(pattern2)>>

\* overwriteWithSubstring: stringList[startIndex:endIndex] = replacement
OverwriteWithSubstring(string, replacement, startIndex, endIndex) ==
    SubSeq(string, 1, startIndex) \o replacement \o SubSeq(string, endIndex + 1, Len(string))

RECURSIVE TopBreadLoop(_, _, _, _, _)
\* the loop over topBreadOptions[lo..hi] for one bottomBread; w is
\* <<word0, word1>>, and two equal words are left as they are.  (w is looked
\* at first and the range is halved so that the evaluation does not nest
\* once per option.)
TopBreadLoop(w, rule, bottomBread, lo, hi) ==
    LET Replaced(word0, word1, topBread, results1, results2) ==
            IF \/ ~Contains(word0, topBread) \/ ~Contains(word1, topBread)
               \/ results1 = NoMatch \/ results2 = NoMatch
               \/ SubSeq(word0, results1[1] + 1, results1[2])
                      = SubSeq(word1, results2[1] + 1, results2[2])
               \/ ~(Abs(results1[1] - results2[1]) <= 2
                      /\ Abs(results1[2] - results2[2]) <= 2)
            THEN <<word0, word1>>
            ELSE <<OverwriteWithSubstring(word0, rule[2],
                                          results1[1] + Len(bottomBread),
                                          results1[2] - Len(topBread)),
                   OverwriteWithSubstring(word1, rule[2],
                                          results2[1] + Len(bottomBread),
                                          results2[2] - Len(topBread))>>
        Searched(word0, word1, topBread) ==
            Replaced(word0, word1, topBread,
                     SandwichSearch(word0, bottomBread, rule[1], rule[2], topBread),
                     SandwichSearch(word1, bottomBread, rule[1], rule[2], topBread))
        mid == (lo + hi) \div 2
    IN IF w[1] = w[2] \/ lo > hi THEN w
       ELSE IF lo < hi
       THEN TopBreadLoop(TopBreadLoop(w, rule, bottomBread, lo, mid),
                         rule, bottomBread, mid + 1, hi)
       ELSE Searched(w[1], w[2], rule[4][lo])

RECURSIVE BottomBreadLoop(_, _, _, _)
\* the loop over bottomBreadOptions[lo..hi]; w is <<word0, word1>>
BottomBreadLoop(w, rule, lo, hi) ==
    LET mid == (lo + hi) \div 2
    IN IF w[1] = w[2] \/ lo > hi THEN w
       ELSE IF lo < hi
       THEN BottomBreadLoop(BottomBreadLoop(w, rule, lo, mid), rule, mid + 1, hi)
       ELSE IF ~Contains(w[1], rule[3][lo]) \/ ~Contains(w[2], rule[3][lo]) THEN w
       ELSE TopBreadLoop(w, rule, rule[3][lo], 1, Len(rule[4]))

RECURSIVE SandwichPairLoop(_, _, _, _)
\* the loop over the word pairs; ne is <<words0, words1>>
SandwichPairLoop(ne, pairs, m, rule) ==
    IF m > Len(pairs) THEN ne
    ELSE IF Len(pairs[m][3]) < rule[5] \/ Len(pairs[m][4]) < rule[5]
         THEN SandwichPairLoop(ne, pairs, m + 1, rule)
    ELSE LET Continue(r) ==
                 SandwichPairLoop(
                     <<UpdateWord(ne[1], pairs[m][1], Replace(r[1], Literal.dash, <<>>)),
                       UpdateWord(ne[2], pairs[m][2], Replace(r[2], Literal.dash, <<>>))>>,
                     pairs, m + 1, rule)
         IN Continue(BottomBreadLoop(<<Literal.dash \o pairs[m][3] \o Literal.dash,
                                       Literal.dash \o pairs[m][4] \o Literal.dash>>,
                                     rule, 1, Len(rule[3])))

ReplaceSubstringSandwichMeatIfMatchingBread(n0, n1, rule) ==
    IF \/ (~Contains(n0, rule[1]) /\ ~Contains(n0, rule[2]))
       \/ (~Contains(n1, rule[1]) /\ ~Contains(n1, rule[2]))
    THEN <<n0, n1>>
    ELSE LET Result(ne) == <<Join(ne[1]), Join(ne[2])>>
         IN Result(SandwichPairLoop(<<Split(n0), Split(n1)>>,
                                    GetPairIndicesAndWords(n0, n1), 1, rule))

RECURSIVE ApplyRules(_, _, _, _)
\* for rule in rules: name0, name1 = _replaceSubstringSandwichMeat...(...)
ApplyRules(n0, n1, rules, r) ==
    IF r > Len(rules) THEN <<n0, n1>>
    ELSE LET Continue(p) == ApplyRules(p[1], p[2], rules, r + 1)
         IN Continue(ReplaceSubstringSandwichMeatIfMatchingBread(n0, n1, rules[r]))

(***************************************************************************)
(* Pronunciation: _getIpaOfOneWord, _getPronunciation, _cleanIpa           *)
(* An IPA symbol outside ASCII is one element, written by its name.        *)
(***************************************************************************)
LetterToPronunciation ==
    [c \in Lower |->
        CASE c = "a" -> <<"ash">>
          [] c = "c" -> <<"k">>
          [] c = "e" -> <<"epsilon">>
          [] c = "i" -> <<"small-cap-i">>
          [] c = "j" -> <<"dezh">>
          [] c = "q" -> <<"k">>
          [] c = "x" -> <<"k", "s">>
          [] c = "y" -> <<"j">>
          [] OTHER -> <<c>>]

\* _pronunciationHailMary
PronunciationHailMary(word) ==
    IF word \in DOMAIN NamesToIpa THEN NamesToIpa[word] ELSE word \o <<"*">>

\* _convert
Convert(word) ==
    IF word \in DOMAIN SyllableToIpa THEN SyllableToIpa[word] ELSE word \o <<"*">>

\* word[k] for a Python index k, which counts from the end when negative
PyIndex(word, k) == IF k < 0 THEN word[Len(word) + k + 1] ELSE word[k + 1]

SubstringSplitsTh(substring, word, i, j) ==
    IF i = j THEN FALSE
    ELSE IF i >= 0 /\ substring[1] = "h" /\ PyIndex(word, i - 1) = "t" THEN TRUE
    ELSE IF j <= Len(word) - 1 /\ substring[Len(substring)] = "t" /\ PyIndex(word, j) = "h"
         THEN TRUE
    ELSE FALSE


RECURSIVE LargestSubstring(_, _, _, _, _)
\* the two loops over i and j (0-based, substring = word[i:j]) for the pairs
\* spans[lo..hi] of (i, j), which are in the order the loops visit them;
\* best is the largest substring found so far, and no substring is longer
\* than the word.  (best is looked at first and the range is halved so that
\* the evaluation does not nest once per pair.)
LargestSubstring(word, spans, lo, hi, best) ==
    LET i == spans[lo][1]
        j == spans[lo][2]
        substring == SubSeq(word, i + 1, j)
        substringIpa == Convert(substring)
        rejected ==
            \/ Len(substring) <= best.largestSubstringLen
            \/ Contains(substring, <<" ">>)
            \/ /\ Len(substring) > 1
               /\ \/ Contains(substringIpa, <<"*">>)
                  \/ Len(substringIpa) >= Len(substring) * 2
                  \/ SubstringSplitsTh(substring, word, i, j)
        pronunciation ==
            IF Len(substring) > 1 THEN substringIpa
            ELSE IF substring[1] \in DOMAIN LetterToPronunciation
                 THEN LetterToPronunciation[substring[1]]
            ELSE <<>>
        mid == (lo + hi) \div 2
    IN IF best.largestSubstringLen >= Len(word) \/ lo > hi THEN best
       ELSE IF lo < hi
       THEN LargestSubstring(word, spans, mid + 1, hi,
                             LargestSubstring(word, spans, lo, mid, best))
       ELSE IF rejected THEN best
       ELSE [substringAdded |-> TRUE, largestSubstringLen |-> Len(substring),
             pronunciationOfLargestSubstring |-> pronunciation,
             beginningIndexOfSubstring |-> i, endIndexOfSubstring |-> j]

RECURSIVE IpaOfSubstrings(_, _)
\* the while loop: each pass writes the pronunciation of the largest
\* substring at its first index and blanks the substring out of the word
IpaOfSubstrings(word, pronunciationList) ==
    LET noSubstring ==
            [substringAdded |-> FALSE, largestSubstringLen |-> 0,
             pronunciationOfLargestSubstring |-> <<>>,
             beginningIndexOfSubstring |-> 0, endIndexOfSubstring |-> 0]
        \* for i in range(len(word)): for j in range(i + 1, len(word) + 1)
        spans == Concat([i \in 1..Len(word) |->
                            [k \in 1..(Len(word) - i + 1) |-> <<i - 1, i - 1 + k>>]])
        Added(best, stripped) ==
            IF best.substringAdded
            THEN IpaOfSubstrings(
                     SubSeq(stripped, 1, best.beginningIndexOfSubstring)
                         \o Repeat(" ", best.largestSubstringLen)
                         \o Drop(stripped, best.endIndexOfSubstring),
                     SetItem(pronunciationList, best.beginningIndexOfSubstring,
                             best.pronunciationOfLargestSubstring))
            ELSE Concat(pronunciationList)
    IN Added(LargestSubstring(word, spans, 1, Len(spans), noSubstring), RStrip(word))

GetIpaOfOneWord(wordIn) ==
    LET word == ToLower(Unidecode(Replace(wordIn, <<" ">>, <<>>)))
        firstAttempt == PronunciationHailMary(word)
    IN IF ~Contains(firstAttempt, <<"*">>) THEN firstAttempt
       ELSE IpaOfSubstrings(word, Repeat(<<>>, Len(word)))

\* @lru_cache(maxsize=1000)
MaxCache == 3

\* a cache that answers with an entry whatever the key is
AnyCacheIndex(c, word) == IF c = <<>> THEN 0 ELSE 1

\* the place in the cache of the entry made for the key word, 0 when there
\* is none (an entry is <<key, result>>, the least recently used one first)
CacheIndex(c, word) ==
    LET hits == {i \in 1..Len(c) : c[i][1] = word}
    IN IF hits = {} THEN 0 ELSE CHOOSE i \in hits : TRUE

\* self._getIpaOfOneWord(word) through the lru_cache: a hit returns the stored
\* result and makes the entry the most recent one; a miss runs the function,
\* stores its result and drops the least recently used entry of a full cache
CachedIpaOfOneWord(c, word) ==
    LET i == CacheIndex(c, word)
    IN IF i > 0
       THEN [ipa |-> c[i][2],
             cache |-> Append(SubSeq(c, 1, i - 1) \o SubSeq(c, i + 1, Len(c)), c[i])]
       ELSE Assign(GetIpaOfOneWord(word), LAMBDA result :
                [ipa |-> result,
                 cache |-> Append(IF Len(c) >= MaxCache THEN Tail(c) ELSE c,
                                  <<word, result>>)])

RECURSIVE PronunciationOfWords(_, _, _, _)
\* for word in name.split(): pList.append(self._getIpaOfOneWord(word))
PronunciationOfWords(c, words, i, pList) ==
    IF i > Len(words) THEN [ipa |-> Join(pList), cache |-> c]
    ELSE Assign(CachedIpaOfOneWord(c, words[i]), LAMBDA r :
             PronunciationOfWords(r.cache, words, i + 1, Append(pList, r.ipa)))

\* the pronunciation of the name and the cache the calls leave behind
GetPronunciation(c, name) == PronunciationOfWords(c, Split(name), 1, <<>>)

AllIpaConsonants ==
    <<"l", "d", "z", "b", "t", "k", "n", "s", "w", "v", "eth", "ezh", "tesh",
      "theta", "h", "g", "dezh", "eng", "p", "m", "esh", "f", "j", "r">>

RECURSIVE RemoveDoubleConsonants(_, _, _)
\* for consonant in allIpaConsonants[lo..hi]: the doubled consonant becomes
\* single.  (ipa is looked at first and the range is halved so that the
\* evaluation does not nest once per consonant.)
RemoveDoubleConsonants(ipa, lo, hi) ==
    LET mid == (lo + hi) \div 2
    IN IF Len(ipa) < 2 \/ lo > hi THEN ipa
       ELSE IF lo < hi
       THEN RemoveDoubleConsonants(RemoveDoubleConsonants(ipa, lo, mid), mid + 1, hi)
       ELSE Replace(ipa, <<AllIpaConsonants[lo], AllIpaConsonants[lo]>>,
                    <<AllIpaConsonants[lo]>>)

CleanIpa(ipaIn) ==
    LET s1 == RemoveDoubleConsonants(ipaIn, 1, Len(AllIpaConsonants))
        s2 == Replace(s1, <<"epsilon", "epsilon">>, <<"i">>)
        s3 == Replace(s2, <<"small-cap-i", "small-cap-i">>, <<"small-cap-i">>)
        s4 == Replace(s3, <<"i", "small-cap-i">>, <<"i">>)
        s5 == Replace(s4, <<"eng", "g">>, <<"eng">>)
    IN Replace(s5, <<",">>, <<>>)

ModifyIpasTogether(ipa0, ipa1) == ApplyRules(ipa0, ipa1, IpaRules, 1)

(***************************************************************************)
(* _pronunciationComparison: [raised, match, combo, ipa0, ipa1]            *)
(***************************************************************************)
RECURSIVE IpaScoreList(_, _, _, _)
\* the list `scores` of the IPA words: fuzz.ratio, replaced by the score of
\* the (i, j) triple of wordCombo when that score is 100 or 0
IpaScoreList(ipaWords0, ipaWords1, wordCombo, c) ==
    IF c >= Len(ipaWords0) * Len(ipaWords1) THEN <<>>
    ELSE LET i == c \div Len(ipaWords1)
             j == c % Len(ipaWords1)
             overrides ==
                 SelectSeq(wordCombo,
                     LAMBDA tup : /\ i = tup[1] /\ j = tup[2]
                                  /\ (tup[3] = 100 \/ tup[3] = 0))
             score == IF overrides = <<>> THEN Ratio(ipaWords0[i + 1], ipaWords1[j + 1])
                      ELSE overrides[Len(overrides)][3]
         IN << <<i, j, score>> >> \o IpaScoreList(ipaWords0, ipaWords1, wordCombo, c + 1)

RECURSIVE FirstMaxSum(_, _, _)
\* max(validCombinations, key=sum): the first combination of maximal sum
FirstMaxSum(combos, n, best) ==
    IF n > Len(combos) THEN best
    ELSE IF SumScores(combos[n]) > SumScores(best)
         THEN FirstMaxSum(combos, n + 1, combos[n])
    ELSE FirstMaxSum(combos, n + 1, best)

RECURSIVE LowestScore(_)
LowestScore(c) ==
    IF Len(c) = 1 THEN c[1][3] ELSE Min(c[1][3], LowestScore(Tail(c)))

\* the verdict on the IPA of the two names, one threshold for every length
IpaVerdictOneThreshold(wordCombo, ipa0, ipa1) ==
    LET ipaWords0 == Split(ipa0)
        ipaWords1 == Split(ipa1)
        scores == IpaScoreList(ipaWords0, ipaWords1, wordCombo, 0)
        minLength == Min(Len(ipaWords0), Len(ipaWords1))
        validCombinations == ValidCombinations(scores, minLength)
        maxCombination == FirstMaxSum(validCombinations, 2, validCombinations[1])
        lowestScore == LowestScore(maxCombination)
    IN IF maxCombination = <<>>
       THEN [raised |-> TRUE, match |-> FALSE, combo |-> <<>>, ipa0 |-> ipa0, ipa1 |-> ipa1]
       ELSE [raised |-> FALSE,
             match |-> lowestScore >= 80,
             combo |-> maxCombination, ipa0 |-> ipa0, ipa1 |-> ipa1]

\* the verdict on the IPA of the two names
IpaVerdict(wordCombo, ipa0, ipa1) ==
    LET ipaWords0 == Split(ipa0)
        ipaWords1 == Split(ipa1)
        scores == IpaScoreList(ipaWords0, ipaWords1, wordCombo, 0)
        minLength == Min(Len(ipaWords0), Len(ipaWords1))
        validCombinations == ValidCombinations(scores, minLength)
        maxCombination == FirstMaxSum(validCombinations, 2, validCombinations[1])
        lowestScore == LowestScore(maxCombination)
    IN IF maxCombination = <<>>
       THEN \* min() of an empty sequence: ValueError
            [raised |-> TRUE, match |-> FALSE, combo |-> <<>>, ipa0 |-> ipa0, ipa1 |-> ipa1]
       ELSE [raised |-> FALSE,
             match |-> IF minLength <= 2 THEN lowestScore >= 80 ELSE lowestScore > 75,
             combo |-> maxCombination, ipa0 |-> ipa0, ipa1 |-> ipa1]

\* the verdict, with the cache the encoder calls leave behind
PronunciationComparison(c, n0, n1) ==
    Assign(GetPronunciation(c, n0), LAMBDA ipaOfName0 :
    Assign(GetPronunciation(ipaOfName0.cache, n1), LAMBDA ipaOfName1 :
    Assign(<<CleanIpa(ipaOfName0.ipa), CleanIpa(ipaOfName1.ipa)>>, LAMBDA cleaned :
    Assign(ModifyIpasTogether(cleaned[1], cleaned[2]), LAMBDA ipas :
    Assign(FindWhichWordsMatchAndHowWell(n0, n1), LAMBDA wordCombo :
        [cache |-> ipaOfName1.cache] @@ IpaVerdict(wordCombo, ipas[1], ipas[2]))))))

(***************************************************************************)
(* _modifyNamesTogether                                                    *)
(***************************************************************************)
ModifyNamesTogether(name0In, name1In) ==
    Assign(RemoveOrInNames(SubWordEnd(name0In, <<"i", "e">>, <<"y">>),
                           SubWordEnd(name1In, <<"i", "e">>, <<"y">>)), LAMBDA a :
    Assign(FixVowelMistakes(a[1], a[2]), LAMBDA b :
    Assign(FixSwappedChars(b[1], b[2]), LAMBDA c :
    Assign(DealWithWrongFirstChar(c[1], c[2]), LAMBDA d :
    Assign(ApplyRules(d[1], d[2], SpellingRules, 1), LAMBDA e :
        <<Strip(CollapseWhitespace(e[1])), Strip(CollapseWhitespace(e[2]))>>)))))

(***************************************************************************)
(* Bounds and input sets                                                   *)
(***************************************************************************)
MaxWords == 3

AlignWords == {<<"a">>, <<"a", "b">>, <<"b", "a", "b">>}

\* the names of at most MaxWords words
NamesOver(words, n) ==
    {Join(ws) : ws \in UNION {[1..m -> words] : m \in 0..n}}

AlignNames == NamesOver(AlignWords, MaxWords)

NoData ==
    [match |-> FALSE, tooGeneric |-> FALSE, tooShort |-> FALSE,
     attempt1 |-> None, attempt2 |-> None, attempt3 |-> None, attempt4 |-> None]

NoPrev == [returned |-> FALSE, data |-> NoData]

\* the names compareTwoNames is called with
CompareNames ==
    {NonString,
     <<"M", "a", "r", "i", "a", " ", "S", "m", "y", "t", "h">>,
     <<"m", "a", "r", "i", "a", " ", "s", "m", "i", "t", "h">>,
     <<"k", "a", "r", "y", " ", "l", "e", "e">>,
     <<"c", "a", "r", "y", " ", "l", "e", "e">>,
     <<"k", "a", "c", "i", "e", " ", "l", "e", "e">>,
     <<"c", "a", "s", "e", "y", " ", "l", "e", "e">>,
     <<"A", ".", " ", "S", "m", "i", "t", "h">>,
     <<"M", "r", ".">>,
     <<"1", "2", " ", "3", "4", "5">>,
     <<"1", "3", " ", "3", "4", "6">>,
     <<"b", "o", "b", " ", "b", "o", "b", "b">>,
     <<"r", "o", "b", "e", "r", "t", " ", "r", "o", "b">>,
     <<"s", "m", "i", "t", "h">>,
     <<>>}

\* the orders in which a Python set of the nicknames can be iterated
IterationOrders(S) == {f \in [1..Cardinality(S) -> S] : \A x \in S : \E k \in DOMAIN f : f[k] = x}

(***************************************************************************)
(* compareTwoNames(in0, in1), one action per stage; then the same          *)
(* comparator is called with the two names swapped.  `match` is the list   *)
(* of the values assigned to the local variable match, `worth` the list of *)
(* the values _isWorthContinuing returned, `prev` the outcome of the first *)
(* call.                                                                   *)
(***************************************************************************)
Init ==
    /\ pc = "start"
    /\ call = 1
    /\ in0 \in CompareNames
    /\ in1 \in CompareNames
    /\ name0 = <<>>
    /\ name1 = <<>>
    /\ data = NoData
    /\ match = <<>>
    /\ worth = <<>>
    /\ mod0 = <<>>
    /\ mod1 = <<>>
    /\ prev = NoPrev
    /\ setOrder \in IterationOrders(AllNicknames)
    /\ combo = <<>>
    /\ once = <<>>
    /\ twice = <<>>
    /\ cache = <<>>
    /\ nicknameSets = NicknameSets
    /\ spellingRules = SpellingRules
    /\ callers = <<>>

\* the stage after an attempt when nothing returns early
ContinueWithoutReturn(m, failed) == failed

\* if match: ... return data
ReturnIfMatch(m, failed) == IF m THEN "returned" ELSE failed

\* the record left as it is
LeaveUnmatched(d, m) == d

\* if match: data['match'] = True
SetMatch(d, m) == IF m THEN [d EXCEPT !.match = TRUE] ELSE d

\* lines 89-92: both names cleaned alone, then together
Clean ==
    /\ pc = "start"
    /\ \E alone0 \in {CleanNameByItself(in0)}, alone1 \in {CleanNameByItself(in1)} :
       \E cleaned \in {CleanNamesTogether(alone0, alone1)} :
          IF cleaned.raised
          THEN pc' = "raised" /\ UNCHANGED <<name0, name1>>
          ELSE pc' = "cleaned" /\ name0' = cleaned.n0 /\ name1' = cleaned.n1
    /\ UNCHANGED <<cache, nicknameSets, spellingRules, callers>>
    /\ UNCHANGED <<call, in0, in1, data, match, worth, mod0, mod1, prev, setOrder,
                   combo, once, twice>>

\* lines 95-98: the two gates
Gates ==
    /\ pc = "cleaned"
    /\ IF EitherNameTooGenericRaises(name0, name1)
       THEN /\ pc' = "raised"
            /\ data' = [data EXCEPT !.tooShort = EitherNameTooShort(name0, name1)]
       ELSE /\ pc' = "gated"
            /\ data' = [data EXCEPT !.tooShort = EitherNameTooShort(name0, name1),
                                    !.tooGeneric = EitherNameTooGeneric(name0, name1)]
    /\ UNCHANGED <<cache, nicknameSets, spellingRules, callers>>
    /\ UNCHANGED <<call, in0, in1, name0, name1, match, worth, mod0, mod1, prev,
                   setOrder, combo, once, twice>>

\* line 101
Nicknames ==
    /\ pc = "gated"
    /\ \E names \in {RemoveNicknames(nicknameSets, name0, name1, setOrder)} :
          name0' = names[1] /\ name1' = names[2] /\ nicknameSets' = names[3]
    /\ pc' = "attempt1"
    /\ UNCHANGED <<cache, spellingRules, callers>>
    /\ UNCHANGED <<call, in0, in1, data, match, worth, mod0, mod1, prev, setOrder,
                   combo, once, twice>>

\* lines 104-108
Attempt1 ==
    /\ pc = "attempt1"
    /\ \E r \in {SpellingComparison(name0, name1)} :
          /\ match' = Append(match, r[1])
          /\ data' = SetMatch([data EXCEPT !.attempt1 = <<name0, name1, r[2]>>], r[1])
          /\ pc' = ReturnIfMatch(r[1], "worth")
    /\ UNCHANGED <<cache, nicknameSets, spellingRules, callers>>
    /\ UNCHANGED <<call, in0, in1, name0, name1, worth, mod0, mod1, prev, setOrder,
                   combo, once, twice>>

\* lines 111-112
WorthContinuing ==
    /\ pc = "worth"
    /\ \E w \in {IsWorthContinuing(name0, name1)} :
          /\ worth' = Append(worth, w)
          /\ pc' = IF w THEN "attempt2" ELSE "returned"
    /\ UNCHANGED <<cache, nicknameSets, spellingRules, callers>>
    /\ UNCHANGED <<call, in0, in1, name0, name1, data, match, mod0, mod1, prev,
                   setOrder, combo, once, twice>>

\* lines 115-120
Attempt2 ==
    /\ pc = "attempt2"
    /\ \E modified \in {ModifyNamesTogether(name0, name1)} :
       \E r \in {SpellingComparison(modified[1], modified[2])} :
          /\ mod0' = modified[1]
          /\ mod1' = modified[2]
          /\ match' = Append(match, r[1])
          /\ data' = SetMatch([data EXCEPT !.attempt2 = <<modified[1], modified[2], r[2]>>],
                              r[1])
          /\ pc' = ReturnIfMatch(r[1], "attempt3")
    /\ UNCHANGED <<cache, nicknameSets, spellingRules, callers>>
    /\ UNCHANGED <<call, in0, in1, name0, name1, worth, prev, setOrder, combo, once,
                   twice>>

\* lines 123-127
Attempt3 ==
    /\ pc = "attempt3"
    /\ \E r \in {PronunciationComparison(cache, mod0, mod1)} :
          /\ cache' = r.cache
          /\ IF r.raised
             THEN pc' = "raised" /\ UNCHANGED <<match, data>>
             ELSE /\ match' = Append(match, r.match)
                  /\ data' = SetMatch([data EXCEPT !.attempt3 = <<r.ipa0, r.ipa1, r.combo>>],
                                      r.match)
                  /\ pc' = ReturnIfMatch(r.match, "attempt4")
    /\ UNCHANGED <<nicknameSets, spellingRules, callers>>
    /\ UNCHANGED <<call, in0, in1, name0, name1, worth, mod0, mod1, prev, setOrder,
                   combo, once, twice>>

\* the fourth attempt run on the modified names of the second attempt
Attempt4OnModified ==
    /\ pc = "attempt4"
    /\ \E r \in {PronunciationComparison(cache, mod0, mod1)} :
          /\ cache' = r.cache
          /\ IF r.raised
             THEN pc' = "raised" /\ UNCHANGED <<match, data>>
             ELSE /\ match' = Append(match, r.match)
                  /\ data' = SetMatch([data EXCEPT !.attempt4 = <<r.ipa0, r.ipa1, r.combo>>],
                                      r.match)
                  /\ pc' = "returned"
    /\ UNCHANGED <<nicknameSets, spellingRules, callers>>
    /\ UNCHANGED <<call, in0, in1, name0, name1, worth, mod0, mod1, prev, setOrder,
                   combo, once, twice>>

\* lines 130-138
Attempt4 ==
    /\ pc = "attempt4"
    /\ \E r \in {PronunciationComparison(cache, name0, name1)} :
          /\ cache' = r.cache
          /\ IF r.raised
             THEN pc' = "raised" /\ UNCHANGED <<match, data>>
             ELSE /\ match' = Append(match, r.match)
                  /\ data' = SetMatch([data EXCEPT !.attempt4 = <<r.ipa0, r.ipa1, r.combo>>],
                                      r.match)
                  /\ pc' = "returned"
    /\ UNCHANGED <<nicknameSets, spellingRules, callers>>
    /\ UNCHANGED <<call, in0, in1, name0, name1, worth, mod0, mod1, prev, setOrder,
                   combo, once, twice>>

\* the caller compares the same two names the other way round
CompareSwapped ==
    /\ pc \in {"returned", "raised"}
    /\ call = 1
    /\ prev' = [returned |-> pc = "returned", data |-> data]
    /\ call' = 2
    /\ in0' = in1
    /\ in1' = in0
    /\ pc' = "start"
    /\ name0' = <<>>
    /\ name1' = <<>>
    /\ data' = NoData
    /\ match' = <<>>
    /\ worth' = <<>>
    /\ mod0' = <<>>
    /\ mod1' = <<>>
    /\ UNCHANGED <<cache, nicknameSets, spellingRules, callers>>
    /\ UNCHANGED <<setOrder, combo, once, twice>>

Next ==
    \/ Clean
    \/ Gates
    \/ Nicknames
    \/ Attempt1
    \/ WorthContinuing
    \/ Attempt2
    \/ Attempt3
    \/ Attempt4
    \/ CompareSwapped

Spec == Init /\ [][Next]_vars

(***************************************************************************)
(* compareTwoNames as one function of the names, the cache and the         *)
(* nickname table it starts from: what a call returns when nothing else    *)
(* runs between its stages.                                                *)
(***************************************************************************)
CompareTwoNames(c, sets, n0In, n1In, order) ==
    LET Out(stage, d, cacheAfter, setsAfter) ==
            [pc |-> stage, data |-> d, cache |-> cacheAfter, sets |-> setsAfter]
        Fourth(n0, n1, d, c3, setsAfter) ==
            Assign(PronunciationComparison(c3, n0, n1), LAMBDA r :
                IF r.raised THEN Out("raised", d, r.cache, setsAfter)
                ELSE Out("returned",
                         SetMatch([d EXCEPT !.attempt4 = <<r.ipa0, r.ipa1, r.combo>>],
                                  r.match),
                         r.cache, setsAfter))
        Third(n0, n1, m0, m1, d, setsAfter) ==
            Assign(PronunciationComparison(c, m0, m1), LAMBDA r :
                IF r.raised THEN Out("raised", d, r.cache, setsAfter)
                ELSE IF r.match
                THEN Out("returned",
                         SetMatch([d EXCEPT !.attempt3 = <<r.ipa0, r.ipa1, r.combo>>],
                                  r.match),
                         r.cache, setsAfter)
                ELSE Fourth(n0, n1, [d EXCEPT !.attempt3 = <<r.ipa0, r.ipa1, r.combo>>],
                            r.cache, setsAfter))
        Second(n0, n1, d, setsAfter) ==
            Assign(ModifyNamesTogether(n0, n1), LAMBDA modified :
            Assign(SpellingComparison(modified[1], modified[2]), LAMBDA r :
                IF r[1]
                THEN Out("returned",
                         SetMatch([d EXCEPT !.attempt2 = <<modified[1], modified[2], r[2]>>],
                                  r[1]),
                         c, setsAfter)
                ELSE Third(n0, n1, modified[1], modified[2],
                           [d EXCEPT !.attempt2 = <<modified[1], modified[2], r[2]>>],
                           setsAfter)))
        First(n0, n1, d, setsAfter) ==
            Assign(SpellingComparison(n0, n1), LAMBDA r :
                IF r[1] \/ ~IsWorthContinuing(n0, n1)
                THEN Out("returned", SetMatch([d EXCEPT !.attempt1 = <<n0, n1, r[2]>>], r[1]),
                         c, setsAfter)
                ELSE Second(n0, n1, [d EXCEPT !.attempt1 = <<n0, n1, r[2]>>], setsAfter))
        Gated(n0, n1) ==
            IF EitherNameTooGenericRaises(n0, n1)
            THEN Out("raised", [NoData EXCEPT !.tooShort = EitherNameTooShort(n0, n1)],
                     c, sets)
            ELSE Assign([NoData EXCEPT !.tooShort = EitherNameTooShort(n0, n1),
                                       !.tooGeneric = EitherNameTooGeneric(n0, n1)],
                        LAMBDA gated :
                 Assign(RemoveNicknames(sets, n0, n1, order), LAMBDA names :
                     First(names[1], names[2], gated, names[3])))
    IN Assign(CleanNamesTogether(CleanNameByItself(n0In), CleanNameByItself(n1In)),
              LAMBDA cleaned :
                  IF cleaned.raised THEN Out("raised", NoData, c, sets)
                  ELSE Gated(cleaned.n0, cleaned.n1))

(***************************************************************************)
(* Two callers on one comparator.  Each caller runs compareTwoNames on its *)
(* own names; the stages of the two calls interleave.  The variables pc,   *)
(* in0 ... mod1 are the locals of the caller that runs, `callers` holds    *)
(* those of the caller that waits; the cache and the tables are the        *)
(* comparator's and are shared.                                            *)
(***************************************************************************)
SharedCalls ==
    {<<<<"k", "a", "c", "i", "e", " ", "l", "e", "e">>,
       <<"c", "a", "s", "e", "y", " ", "l", "e", "e">>>>,
     <<<<"k", "a", "r", "y", " ", "l", "e", "e">>,
       <<"c", "a", "r", "y", " ", "l", "e", "e">>>>,
     <<<<"r", "o", "b", "e", "r", "t", " ", "r", "o", "b">>,
       <<"b", "o", "b", " ", "b", "o", "b", "b">>>>,
     <<<<"b", "o", "b", " ", "b", "o", "b", "b">>,
       <<"r", "o", "b", "e", "r", "t", " ", "r", "o", "b">>>>}

\* the locals of a call that has not run yet
\* two of the orders in which the set of nicknames may be iterated
SharedOrders ==
    {<<Literal.bob, Literal.rob, Literal.robert>>,
     <<Literal.robert, Literal.rob, Literal.bob>>}

NewCall(n0, n1) ==
    [pc |-> "start", in0 |-> n0, in1 |-> n1, name0 |-> <<>>, name1 |-> <<>>,
     data |-> NoData, match |-> <<>>, worth |-> <<>>, mod0 |-> <<>>, mod1 |-> <<>>]

InitShared ==
    /\ pc = "start"
    /\ call = 1
    /\ \E mine \in SharedCalls : in0 = mine[1] /\ in1 = mine[2]
    /\ name0 = <<>>
    /\ name1 = <<>>
    /\ data = NoData
    /\ match = <<>>
    /\ worth = <<>>
    /\ mod0 = <<>>
    /\ mod1 = <<>>
    /\ prev = NoPrev
    /\ setOrder \in SharedOrders
    /\ combo = <<>>
    /\ once = <<>>
    /\ twice = <<>>
    /\ cache = <<>>
    /\ nicknameSets = NicknameSets
    /\ spellingRules = SpellingRules
    /\ \E theirs \in SharedCalls : callers = <<NewCall(theirs[1], theirs[2])>>

\* the caller that runs is suspended and the one that waits goes on
Switch ==
    /\ callers # <<>>
    /\ callers' = <<[pc |-> pc, in0 |-> in0, in1 |-> in1, name0 |-> name0,
                     name1 |-> name1, data |-> data, match |-> match, worth |-> worth,
                     mod0 |-> mod0, mod1 |-> mod1]>>
    /\ pc' = callers[1].pc
    /\ in0' = callers[1].in0
    /\ in1' = callers[1].in1
    /\ name0' = callers[1].name0
    /\ name1' = callers[1].name1
    /\ data' = callers[1].data
    /\ match' = callers[1].match
    /\ worth' = callers[1].worth
    /\ mod0' = callers[1].mod0
    /\ mod1' = callers[1].mod1
    /\ UNCHANGED <<cache, nicknameSets, spellingRules>>
    /\ UNCHANGED <<call, prev, setOrder, combo, once, twice>>

NextShared ==
    \/ Clean
    \/ Gates
    \/ Nicknames
    \/ Attempt1
    \/ WorthContinuing
    \/ Attempt2
    \/ Attempt3
    \/ Attempt4
    \/ Switch

SpecShared == InitShared /\ [][NextShared]_vars

(***************************************************************************)
(* The aligner on its own: _findWhichWordsMatchAndHowWell(in0, in1)        *)
(***************************************************************************)
InitAlign ==
    /\ pc = "align"
    /\ call = 0
    /\ in0 \in AlignNames
    /\ in1 \in AlignNames
    /\ name0 = <<>>
    /\ name1 = <<>>
    /\ data = NoData
    /\ match = <<>>
    /\ worth = <<>>
    /\ mod0 = <<>>
    /\ mod1 = <<>>
    /\ prev = NoPrev
    /\ setOrder = <<>>
    /\ combo = <<>>
    /\ once = <<>>
    /\ twice = <<>>
    /\ cache = <<>>
    /\ nicknameSets = NicknameSets
    /\ spellingRules = SpellingRules
    /\ callers = <<>>

FindAlignment ==
    /\ pc = "align"
    /\ combo' = FindWhichWordsMatchAndHowWell(in0, in1)
    /\ pc' = "aligned"
    /\ UNCHANGED <<cache, nicknameSets, spellingRules, callers>>
    /\ UNCHANGED <<call, in0, in1, name0, name1, data, match, worth, mod0, mod1,
                   prev, setOrder, once, twice>>

NextAlign == FindAlignment

SpecAlign == InitAlign /\ [][NextAlign]_vars

(***************************************************************************)
(* The single-name cleaner on its own: _cleanNameByItself(in0), and the    *)
(* cleaner applied to its own result                                       *)
(***************************************************************************)
CleanWords ==
    {<<"M", "r", ".">>,
     <<"m">>,
     <<"t", "h", "e">>,
     <<"r">>,
     <<"A", "n", "n">>,
     <<"O", "'", "N", "e", "i", "l">>}

CleanNames == NamesOver(CleanWords, MaxWords) \cup {NonString}

InitClean ==
    /\ pc = "clean"
    /\ call = 0
    /\ in0 \in CleanNames
    /\ in1 = <<>>
    /\ name0 = <<>>
    /\ name1 = <<>>
    /\ data = NoData
    /\ match = <<>>
    /\ worth = <<>>
    /\ mod0 = <<>>
    /\ mod1 = <<>>
    /\ prev = NoPrev
    /\ setOrder = <<>>
    /\ combo = <<>>
    /\ once = <<>>
    /\ twice = <<>>
    /\ cache = <<>>
    /\ nicknameSets = NicknameSets
    /\ spellingRules = SpellingRules
    /\ callers = <<>>

CleanOnce ==
    /\ pc = "clean"
    /\ once' = CleanNameByItself(in0)
    /\ pc' = "cleanedOnce"
    /\ UNCHANGED <<cache, nicknameSets, spellingRules, callers>>
    /\ UNCHANGED <<call, in0, in1, name0, name1, data, match, worth, mod0, mod1,
                   prev, setOrder, combo, twice>>

CleanAgain ==
    /\ pc = "cleanedOnce"
    /\ twice' = CleanNameByItself(once)
    /\ pc' = "cleanedTwice"
    /\ UNCHANGED <<cache, nicknameSets, spellingRules, callers>>
    /\ UNCHANGED <<call, in0, in1, name0, name1, data, match, worth, mod0, mod1,
                   prev, setOrder, combo, once>>

NextClean == CleanOnce \/ CleanAgain

SpecClean == InitClean /\ [][NextClean]_vars

(***************************************************************************)
(* The two spelling checks on their own: _spellingComparison(in0, in1) and *)
(* _consonantComparison(in0, in1); `match` holds what the call returned,   *)
(* `combo` the alignment _spellingComparison returned with it.             *)
(***************************************************************************)
SpellingNames ==
    {<<"a", "l", " ", "b", "o", " ", "c", "y", " ", "d", "i">>,
     <<"a", "l", " ", "b", "o", " ", "c", "y", " ", "e", "d">>,
     <<"a", "n", "a", " ", "e", "v", "a", " ", "i", "d", "a">>,
     <<"a", "n", "o", " ", "e", "v", "o", " ", "i", "d", "o">>,
     <<"a", "l", " ", "b", "o">>,
     <<"a", "n", "a", " ", "e", "v", "a">>,
     <<"a", "n", "o", " ", "e", "v", "o">>,
     <<"a", "n", "a", " ", "e", "v", "a", " ", "i", "d", "a", " ", "b", "o">>,
     <<"a", "n", "o", " ", "e", "v", "o", " ", "i", "d", "o", " ", "c", "y">>,
     <<"a", "l">>}

InitSpelling ==
    /\ pc = "spelling"
    /\ call = 0
    /\ in0 \in SpellingNames
    /\ in1 \in SpellingNames
    /\ name0 = <<>>
    /\ name1 = <<>>
    /\ data = NoData
    /\ match = <<>>
    /\ worth = <<>>
    /\ mod0 = <<>>
    /\ mod1 = <<>>
    /\ prev = NoPrev
    /\ setOrder = <<>>
    /\ combo = <<>>
    /\ once = <<>>
    /\ twice = <<>>
    /\ cache = <<>>
    /\ nicknameSets = NicknameSets
    /\ spellingRules = SpellingRules
    /\ callers = <<>>

CheckSpelling ==
    /\ pc = "spelling"
    /\ \E r \in {SpellingComparison(in0, in1)} :
          /\ match' = <<r[1]>>
          /\ combo' = r[2]
    /\ pc' = "spelled"
    /\ UNCHANGED <<cache, nicknameSets, spellingRules, callers>>
    /\ UNCHANGED <<call, in0, in1, name0, name1, data, worth, mod0, mod1, prev,
                   setOrder, once, twice>>

CheckConsonants ==
    /\ pc = "spelling"
    /\ match' = <<ConsonantComparison(in0, in1)>>
    /\ pc' = "consonants"
    /\ UNCHANGED <<cache, nicknameSets, spellingRules, callers>>
    /\ UNCHANGED <<call, in0, in1, name0, name1, data, worth, mod0, mod1, prev,
                   setOrder, combo, once, twice>>

NextSpelling == CheckSpelling \/ CheckConsonants

SpecSpelling == InitSpelling /\ [][NextSpelling]_vars

(***************************************************************************)
(* The pronunciation check on its own: _pronunciationComparison(in0, in1); *)
(* `match` holds the verdict, `combo` the alignment of the IPA words,      *)
(* `name0` and `name1` the two IPA strings the call returned.              *)
(***************************************************************************)
IpaNames ==
    {<<"b", "d", "f", "g", "m", "k", " ", "l", "o", " ", "m", "o">>,
     <<"b", "d", "f", "g", "m", "l", "r", " ", "l", "o", " ", "m", "o">>,
     <<"b", "d", "f", "g", "m", "k", " ", "l", "o">>,
     <<"b", "d", "f", "g", "m", "l", "r", " ", "l", "o">>,
     <<"b", "d", "f", "g", " ", "l", "o", " ", "m", "o">>,
     <<"b", "d", "f", "r", " ", "l", "o", " ", "m", "o">>,
     <<"b", "d", "f", "g", "m", " ", "l", "o">>,
     <<"b", "d", "f", "g", "r", " ", "l", "o">>,
     <<"l", "o", " ", "m", "o">>,
     <<"l", "o">>,
     <<"a", "l">>,
     <<"a", "l", "b", "e", "r", "t">>,
     <<"l">>}

InitIpa ==
    /\ pc = "pronounce"
    /\ call = 0
    /\ in0 \in IpaNames
    /\ in1 \in IpaNames
    /\ name0 = <<>>
    /\ name1 = <<>>
    /\ data = NoData
    /\ match = <<>>
    /\ worth = <<>>
    /\ mod0 = <<>>
    /\ mod1 = <<>>
    /\ prev = NoPrev
    /\ setOrder = <<>>
    /\ combo = <<>>
    /\ once = <<>>
    /\ twice = <<>>
    /\ cache = <<>>
    /\ nicknameSets = NicknameSets
    /\ spellingRules = SpellingRules
    /\ callers = <<>>

ComparePronunciation ==
    /\ pc = "pronounce"
    /\ \E r \in {PronunciationComparison(cache, in0, in1)} :
          /\ pc' = IF r.raised THEN "raised" ELSE "pronounced"
          /\ match' = <<r.match>>
          /\ combo' = r.combo
          /\ name0' = r.ipa0
          /\ name1' = r.ipa1
          /\ cache' = r.cache
    /\ UNCHANGED <<nicknameSets, spellingRules, callers>>
    /\ UNCHANGED <<call, in0, in1, data, worth, mod0, mod1, prev, setOrder,
                   once, twice>>

NextIpa == ComparePronunciation

SpecIpa == InitIpa /\ [][NextIpa]_vars

(***************************************************************************)
(* The two word repairs of _modifyNamesTogether on their own:              *)
(* _fixVowelMistakes(in0, in1) and _fixSwappedChars(in0, in1); `name0` and *)
(* `name1` hold the two names the call returned.                           *)
(***************************************************************************)
RepairNames ==
    {<<"b", "a", "m", "e", "l">>,
     <<"c", "o", "m", "e", "l">>,
     <<"b", "a", "n", "e", "l">>,
     <<"b", "o", "n", "e", "l">>,
     <<"l", "o", " ", "b", "a", "n", "e", "l">>,
     <<"b", "o", "n", "e", "l", " ", "l", "o">>,
     <<"a", "b", "c", "d", "e">>,
     <<"a", "c", "b", "d", "e">>,
     <<"a", "x", "b", "d", "e">>,
     <<"b", "a", "n", "a", "l">>,
     <<"b", "a", "n", "e">>}

InitRepair ==
    /\ pc = "repair"
    /\ call = 0
    /\ in0 \in RepairNames
    /\ in1 \in RepairNames
    /\ name0 = <<>>
    /\ name1 = <<>>
    /\ data = NoData
    /\ match = <<>>
    /\ worth = <<>>
    /\ mod0 = <<>>
    /\ mod1 = <<>>
    /\ prev = NoPrev
    /\ setOrder = <<>>
    /\ combo = <<>>
    /\ once = <<>>
    /\ twice = <<>>
    /\ cache = <<>>
    /\ nicknameSets = NicknameSets
    /\ spellingRules = SpellingRules
    /\ callers = <<>>

FixVowels ==
    /\ pc = "repair"
    /\ \E r \in {FixVowelMistakes(in0, in1)} :
          /\ name0' = r[1]
          /\ name1' = r[2]
    /\ pc' = "vowels"
    /\ UNCHANGED <<cache, nicknameSets, spellingRules, callers>>
    /\ UNCHANGED <<call, in0, in1, data, match, worth, mod0, mod1, prev,
                   setOrder, combo, once, twice>>

FixSwaps ==
    /\ pc = "repair"
    /\ \E r \in {FixSwappedChars(in0, in1)} :
          /\ name0' = r[1]
          /\ name1' = r[2]
    /\ pc' = "swapped"
    /\ UNCHANGED <<cache, nicknameSets, spellingRules, callers>>
    /\ UNCHANGED <<call, in0, in1, data, match, worth, mod0, mod1, prev,
                   setOrder, combo, once, twice>>

NextRepair == FixVowels \/ FixSwaps

SpecRepair == InitRepair /\ [][NextRepair]_vars

(***************************************************************************)
(* The two calls of _combinePrefixWithSurnameifInBoth that                 *)
(* _cleanNamesTogether makes, each on its own on (in0, in1); `name0` and   *)
(* `name1` hold the two names the call returned.                           *)
(***************************************************************************)
PrefixNames ==
    {<<"a", "l", " ", "v", "a", "n", " ", "b", "o">>,
     <<"a", "l", " ", "v", "a", "n", " ", "h", "o">>,
     <<"a", "l", " ", "d", "e", " ", "b", "o">>,
     <<"a", "l", " ", "d", "e", " ", "h", "o">>,
     <<"a", "l", " ", "d", "e", " ", "b", "i">>,
     <<"a", "l", " ", "b", "o">>,
     <<"a", "l", " ", "v", "a", "n">>,
     <<"a", "l", " ", "d", "e">>,
     <<"x", " ", "d", "e", " ", "a", " ", "d", "e", " ", "b">>,
     <<"y", " ", "d", "e", " ", "b">>,
     <<"v", "a", "n", " ", "b", "o", " ", "d", "e">>}

InitPrefix ==
    /\ pc = "prefix"
    /\ call = 0
    /\ in0 \in PrefixNames
    /\ in1 \in PrefixNames
    /\ name0 = <<>>
    /\ name1 = <<>>
    /\ data = NoData
    /\ match = <<>>
    /\ worth = <<>>
    /\ mod0 = <<>>
    /\ mod1 = <<>>
    /\ prev = NoPrev
    /\ setOrder = <<>>
    /\ combo = <<>>
    /\ once = <<>>
    /\ twice = <<>>
    /\ cache = <<>>
    /\ nicknameSets = NicknameSets
    /\ spellingRules = SpellingRules
    /\ callers = <<>>

CombineDe ==
    /\ pc = "prefix"
    /\ \E r \in {CombinePrefixWithSurnameifInBoth(in0, in1, <<"d", "e">>)} :
          /\ name0' = r.n0
          /\ name1' = r.n1
    /\ pc' = "de"
    /\ UNCHANGED <<cache, nicknameSets, spellingRules, callers>>
    /\ UNCHANGED <<call, in0, in1, data, match, worth, mod0, mod1, prev,
                   setOrder, combo, once, twice>>

CombineVan ==
    /\ pc = "prefix"
    /\ \E r \in {CombinePrefixWithSurnameifInBoth(in0, in1, <<"v", "a", "n">>)} :
          /\ name0' = r.n0
          /\ name1' = r.n1
    /\ pc' = "van"
    /\ UNCHANGED <<cache, nicknameSets, spellingRules, callers>>
    /\ UNCHANGED <<call, in0, in1, data, match, worth, mod0, mod1, prev,
                   setOrder, combo, once, twice>>

NextPrefix == CombineDe \/ CombineVan

SpecPrefix == InitPrefix /\ [][NextPrefix]_vars

(***************************************************************************)
(* The two `while True` loops of _cleanNamesTogether on their own, one     *)
(* call of _combineSplitWords per step: `name0` and `name1` are the names  *)
(* the loops rebind, pc "first" and "second" the loop that is running.     *)
(***************************************************************************)
CombineNames ==
    {<<"x", " ", "a", "b", " ", "c", "d">>,
     <<"a", "b", " ", "c", "d", " ", "x">>,
     <<"x", " ", "n", "e", "w", " ", "m", "a", "n">>,
     <<"y", " ", "a", "b", "c", "d">>,
     <<"a", "b", "c", "d", " ", "y">>,
     <<"y", " ", "n", "e", "w", "m", "a", "n">>,
     <<"a", "b", " ", "c", "d">>}

InitCombine ==
    /\ pc = "first"
    /\ call = 0
    /\ in0 \in CombineNames
    /\ in1 \in CombineNames
    /\ name0 = in0
    /\ name1 = in1
    /\ data = NoData
    /\ match = <<>>
    /\ worth = <<>>
    /\ mod0 = <<>>
    /\ mod1 = <<>>
    /\ prev = NoPrev
    /\ setOrder = <<>>
    /\ combo = <<>>
    /\ once = <<>>
    /\ twice = <<>>
    /\ cache = <<>>
    /\ nicknameSets = NicknameSets
    /\ spellingRules = SpellingRules
    /\ callers = <<>>

\* combined, name0, name1 = self._combineSplitWords(name0, name1)
CombineFirst ==
    /\ pc = "first"
    /\ \E r \in {CombineSplitWords(name0, name1)} :
          /\ name0' = r[2]
          /\ name1' = r[3]
          /\ pc' = IF r[1] THEN "first" ELSE "second"
    /\ UNCHANGED <<cache, nicknameSets, spellingRules, callers>>
    /\ UNCHANGED <<call, in0, in1, data, match, worth, mod0, mod1, prev,
                   setOrder, combo, once, twice>>

\* combined, name1, name0 = self._combineSplitWords(name1, name0)
CombineSecond ==
    /\ pc = "second"
    /\ \E r \in {CombineSplitWords(name1, name0)} :
          /\ name1' = r[2]
          /\ name0' = r[3]
          /\ pc' = IF r[1] THEN "second" ELSE "done"
    /\ UNCHANGED <<cache, nicknameSets, spellingRules, callers>>
    /\ UNCHANGED <<call, in0, in1, data, match, worth, mod0, mod1, prev,
                   setOrder, combo, once, twice>>

NextCombine == CombineFirst \/ CombineSecond

SpecCombine == InitCombine /\ [][NextCombine]_vars

\* each loop keeps calling until a call reports no combination
SpecCombineLive == SpecCombine /\ WF_vars(NextCombine)

(***************************************************************************)
(* _removeNicknames(in0, in1) on its own, on names as the two cleaners     *)
(* leave them; `name0` and `name1` hold the two names the call returned.   *)
(***************************************************************************)
NicknameNames ==
    {<<"b", "o", "b", " ", "l", "e", "e">>,
     <<"r", "o", "b", "e", "r", "t", " ", "l", "e", "e">>,
     <<"r", "o", "b", " ", "b", "o", "b">>,
     <<"r", "o", "b", "e", "r", "t", " ", "r", "o", "b">>,
     <<"b", "o", "b", " ", "l", "e", "e", "-", "b", "o", "b">>,
     <<"r", "o", "b", "e", "r", "t", " ", "l", "e", "e", "-", "x">>,
     <<"a", "l", " ", "l", "e", "e">>,
     <<"b", "o", "b", " ", "b", "o", "b">>,
     <<"r", "o", "b", "e", "r", "t">>,
     <<"b", "o", "b", " ", "r", "o", "b", "e", "r", "t">>,
     <<"r", "o", "b">>}

InitNicknames ==
    /\ pc = "nicknames"
    /\ call = 0
    /\ in0 \in NicknameNames
    /\ in1 \in NicknameNames
    /\ name0 = <<>>
    /\ name1 = <<>>
    /\ data = NoData
    /\ match = <<>>
    /\ worth = <<>>
    /\ mod0 = <<>>
    /\ mod1 = <<>>
    /\ prev = NoPrev
    /\ setOrder \in SharedOrders
    /\ combo = <<>>
    /\ once = <<>>
    /\ twice = <<>>
    /\ cache = <<>>
    /\ nicknameSets = NicknameSets
    /\ spellingRules = SpellingRules
    /\ callers = <<>>

SubstituteNicknames ==
    /\ pc = "nicknames"
    /\ \E names \in {RemoveNicknames(nicknameSets, in0, in1, setOrder)} :
          name0' = names[1] /\ name1' = names[2] /\ nicknameSets' = names[3]
    /\ pc' = "substituted"
    /\ UNCHANGED <<cache, spellingRules, callers>>
    /\ UNCHANGED <<call, in0, in1, data, match, worth, mod0, mod1, prev, setOrder,
                   combo, once, twice>>

NextNicknames == SubstituteNicknames

SpecNicknames == InitNicknames /\ [][NextNicknames]_vars

(***************************************************************************)
(* The th guard of _getIpaOfOneWord on the first pass over a token: in0 is *)
(* the token, `combo` the pair (i, j) of a candidate word[i:j] that is a   *)
(* key of syllableToIpa with a short enough IPA; `match` holds what        *)
(* substringSplitsTh returned, `name0` the IPA of the whole token.         *)
(***************************************************************************)
MaxTokenLen == 4

GuardTokens == UNION {[1..n -> {"h", "a", "t"}] : n \in 2..MaxTokenLen}

\* the (i, j) for which the guard is called on the first pass over word
GuardCandidates(word) ==
    {span \in (0..Len(word)) \X (0..Len(word)) :
        /\ span[2] - span[1] > 1
        /\ LET substring == SubSeq(word, span[1] + 1, span[2])
               substringIpa == Convert(substring)
           IN /\ ~Contains(substringIpa, <<"*">>)
              /\ ~(Len(substringIpa) >= Len(substring) * 2)}

InitGuard ==
    /\ pc = "guard"
    /\ call = 0
    /\ in0 \in GuardTokens
    /\ in1 = <<>>
    /\ name0 = <<>>
    /\ name1 = <<>>
    /\ data = NoData
    /\ match = <<>>
    /\ worth = <<>>
    /\ mod0 = <<>>
    /\ mod1 = <<>>
    /\ prev = NoPrev
    /\ setOrder = <<>>
    /\ combo \in GuardCandidates(in0)
    /\ once = <<>>
    /\ twice = <<>>
    /\ cache = <<>>
    /\ nicknameSets = NicknameSets
    /\ spellingRules = SpellingRules
    /\ callers = <<>>

\* substringSplitsTh(substring, word, i, j)
GuardCandidate ==
    /\ pc = "guard"
    /\ match' = <<SubstringSplitsTh(SubSeq(in0, combo[1] + 1, combo[2]), in0,
                                     combo[1], combo[2])>>
    /\ pc' = "guarded"
    /\ UNCHANGED <<cache, nicknameSets, spellingRules, callers>>
    /\ UNCHANGED <<call, in0, in1, name0, name1, data, worth, mod0, mod1, prev,
                   setOrder, combo, once, twice>>

\* the whole encoding of the token
EncodeToken ==
    /\ pc = "guard"
    /\ name0' = GetIpaOfOneWord(in0)
    /\ pc' = "encoded"
    /\ UNCHANGED <<cache, nicknameSets, spellingRules, callers>>
    /\ UNCHANGED <<call, in0, in1, name1, data, match, worth, mod0, mod1, prev,
                   setOrder, combo, once, twice>>

NextGuard == GuardCandidate \/ EncodeToken

SpecGuard == InitGuard /\ [][NextGuard]_vars

(***************************************************************************)
(* One call of _replaceSubstringSandwichMeatIfMatchingBread on two names   *)
(* of several words, some with a dash inside a word, for the rule          *)
(* SpellingRules[call]; `name0` and `name1` hold the names it returned.    *)
(***************************************************************************)
FrameNames ==
    {<<"j", "o", "-", "a", "n", "n", " ", "p", "h", "o", "n", "e">>,
     <<"j", "o", "-", "a", "n", "n", " ", "f", "o", "n", "e">>,
     <<"a", "n", "n", "a", " ", "p", "h", "o", "n", "e">>,
     <<"a", "n", "n", "a", " ", "f", "o", "n", "e">>,
     <<"l", "e", "e", " ", "b", "a", "c", "k", "s">>,
     <<"l", "e", "e", " ", "b", "a", "k", "s">>,
     <<"j", "o", "-", "a", "n", "n", " ", "l", "e", "e">>,
     <<"p", "h", "o", "n", "e">>,
     <<"f", "o", "n", "e", " ", "b", "a", "c", "k", "s">>}

InitFrame ==
    /\ pc = "frame"
    /\ call \in 1..Len(SpellingRules)
    /\ in0 \in FrameNames
    /\ in1 \in FrameNames
    /\ name0 = <<>>
    /\ name1 = <<>>
    /\ data = NoData
    /\ match = <<>>
    /\ worth = <<>>
    /\ mod0 = <<>>
    /\ mod1 = <<>>
    /\ prev = NoPrev
    /\ setOrder = <<>>
    /\ combo = <<>>
    /\ once = <<>>
    /\ twice = <<>>
    /\ cache = <<>>
    /\ nicknameSets = NicknameSets
    /\ spellingRules = SpellingRules
    /\ callers = <<>>

ApplyRuleToNames ==
    /\ pc = "frame"
    /\ \E names \in {ReplaceSubstringSandwichMeatIfMatchingBread(in0, in1,
                                                                  SpellingRules[call])} :
          name0' = names[1] /\ name1' = names[2]
    /\ pc' = "framed"
    /\ UNCHANGED <<cache, nicknameSets, spellingRules, callers>>
    /\ UNCHANGED <<call, in0, in1, data, match, worth, mod0, mod1, prev, setOrder,
                   combo, once, twice>>

NextFrame == ApplyRuleToNames

SpecFrame == InitFrame /\ [][NextFrame]_vars

(***************************************************************************)
(* The single-name cleaner on names that hold a title or a suffix, alone,  *)
(* between other words, and inside a longer word                           *)
(***************************************************************************)
Titles ==
    {<<"j", "u", "n", "i", "o", "r">>,
     <<"s", "e", "n", "i", "o", "r">>,
     <<"p", "r", "o", "f", "e", "s", "s", "o", "r">>,
     <<"m", "i", "s", "t", "e", "r">>,
     <<"m", "i", "s", "s", "u", "s">>,
     <<"m", "i", "s", "s">>,
     <<"d", "o", "c", "t", "o", "r">>,
     Literal.reverend,
     Literal.no_suffix,
     Literal.head_of_household}

TitleNames ==
    UNION {{t,
            <<"a", "l", " ">> \o t,
            t \o <<" ", "l", "e", "e">>,
            <<"x">> \o t,
            t \o <<"s">>,
            <<"x">> \o t \o <<"s">>} : t \in Titles}

InitTitles ==
    /\ pc = "clean"
    /\ call = 0
    /\ in0 \in TitleNames
    /\ in1 = <<>>
    /\ name0 = <<>>
    /\ name1 = <<>>
    /\ data = NoData
    /\ match = <<>>
    /\ worth = <<>>
    /\ mod0 = <<>>
    /\ mod1 = <<>>
    /\ prev = NoPrev
    /\ setOrder = <<>>
    /\ combo = <<>>
    /\ once = <<>>
    /\ twice = <<>>
    /\ cache = <<>>
    /\ nicknameSets = NicknameSets
    /\ spellingRules = SpellingRules
    /\ callers = <<>>

NextTitles == CleanOnce

SpecTitles == InitTitles /\ [][NextTitles]_vars

(***************************************************************************)
(* The rule engine on its own: one call of                                 *)
(* _replaceSubstringSandwichMeatIfMatchingBread(in0, in1, *rule) with rule *)
(* number `call` of spellingRules, on two names of one word each           *)
(***************************************************************************)
RuleWords ==
    {<<"p", "h", "a", "p", "h", "b">>,
     <<"f", "a", "x", "x", "a", "f", "b">>,
     <<"p", "h", "o", "n", "e">>,
     <<"f", "o", "n", "e">>,
     <<"b", "a", "c", "k", "s">>,
     <<"b", "a", "k", "s">>,
     <<"b", "a", "c", "k">>,
     <<"a", "p", "h", "b">>}

InitRule ==
    /\ pc = "rule"
    /\ call \in 1..Len(SpellingRules)
    /\ in0 \in RuleWords
    /\ in1 \in RuleWords
    /\ name0 = <<>>
    /\ name1 = <<>>
    /\ data = NoData
    /\ match = <<>>
    /\ worth = <<>>
    /\ mod0 = <<>>
    /\ mod1 = <<>>
    /\ prev = NoPrev
    /\ setOrder = <<>>
    /\ combo = <<>>
    /\ once = <<>>
    /\ twice = <<>>
    /\ cache = <<>>
    /\ nicknameSets = NicknameSets
    /\ spellingRules = SpellingRules
    /\ callers = <<>>

ApplyRule ==
    /\ pc = "rule"
    /\ \E names \in {ReplaceSubstringSandwichMeatIfMatchingBread(in0, in1,
                                                                  SpellingRules[call])} :
          name0' = names[1] /\ name1' = names[2]
    /\ pc' = "ruled"
    /\ UNCHANGED <<cache, nicknameSets, spellingRules, callers>>
    /\ UNCHANGED <<call, in0, in1, data, match, worth, mod0, mod1, prev, setOrder,
                   combo, once, twice>>

NextRule == ApplyRule

SpecRule == InitRule /\ [][NextRule]_vars

(***************************************************************************)
(* The constructor on its own: _rules_spelling.json holds the one rule     *)
(* RuleCandidates[call]; __init__ expands it, and the rule loop of         *)
(* _modifyNamesTogether then uses it on in0 and in1.                       *)
(***************************************************************************)
RuleCandidates ==
    << <<Str(<<"p", "h">>), Str(<<"f">>), Str(Literal.letter_or_break),
         Str(Literal.letter_or_break), NotStr(4)>>,
       <<Str(<<"c", "k">>), Str(<<"k">>), Str(Literal.vowel),
         NotStr(<< <<"-">>, <<"s">> >>), NotStr(4)>>,
       <<Str(<<"p", "h">>), Str(<<"f">>), Str(Literal.letter_or_break),
         Str(Literal.letter_or_break)>>,
       <<Str(<<"p", "h">>), Str(<<"f">>), Str(Literal.letter_or_break),
         Str(Literal.letter_or_break), NotStr(4), NotStr(0)>>,
       <<Str(<<"p", "h">>), Str(<<"f">>), Str(Literal.letter_or_break),
         Str(<<"b", "r", "k">>), NotStr(3)>> >>

ConstructWords ==
    {<<"p", "h", "o", "n", "e">>,
     <<"f", "o", "n", "e">>,
     <<"a", "p", "h", "b">>,
     <<"a", "f", "b">>,
     <<"b", "a", "c", "k", "s">>,
     <<"b", "a", "k", "s">>}

InitConstruct ==
    /\ pc = "loaded"
    /\ call \in 1..Len(RuleCandidates)
    /\ in0 \in ConstructWords
    /\ in1 \in ConstructWords
    /\ name0 = <<>>
    /\ name1 = <<>>
    /\ data = NoData
    /\ match = <<>>
    /\ worth = <<>>
    /\ mod0 = <<>>
    /\ mod1 = <<>>
    /\ prev = NoPrev
    /\ setOrder = <<>>
    /\ combo = <<>>
    /\ once = <<>>
    /\ twice = <<>>
    /\ cache = <<>>
    /\ nicknameSets = NicknameSets
    /\ spellingRules = <<>>
    /\ callers = <<>>

\* lines 30-43: the loops have no branch that rejects a rule
Construct ==
    /\ pc = "loaded"
    /\ spellingRules' = ExpandRules(<<RuleCandidates[call]>>, SpellingReplacementRules)
    /\ pc' = "constructed"
    /\ UNCHANGED <<cache, nicknameSets, callers>>
    /\ UNCHANGED <<call, in0, in1, name0, name1, data, match, worth, mod0, mod1, prev,
                   setOrder, combo, once, twice>>

\* for bottomBread in bottomBreadOptions: a list gives its items, a str
\* that __init__ left in place gives its characters
BreadOptions(raw, options) ==
    IF raw.isStr /\ raw.val \notin DOMAIN SpellingReplacementRules
    THEN [i \in 1..Len(options) |-> <<options[i]>>]
    ELSE options

\* lines 1044-1045 for the one rule: rule[4] of a shorter rule is an
\* IndexError, items after the fifth are not looked at
UseRule ==
    /\ pc = "constructed"
    /\ IF Len(spellingRules[1]) < 5
       THEN pc' = "raised" /\ UNCHANGED <<name0, name1>>
       ELSE \E names \in {ReplaceSubstringSandwichMeatIfMatchingBread(in0, in1,
                              <<spellingRules[1][1], spellingRules[1][2],
                                BreadOptions(RuleCandidates[call][3], spellingRules[1][3]),
                                BreadOptions(RuleCandidates[call][4], spellingRules[1][4]),
                                spellingRules[1][5]>>)} :
               /\ name0' = names[1]
               /\ name1' = names[2]
               /\ pc' = "ruled"
    /\ UNCHANGED <<cache, nicknameSets, spellingRules, callers>>
    /\ UNCHANGED <<call, in0, in1, data, match, worth, mod0, mod1, prev, setOrder,
                   combo, once, twice>>

NextConstruct == Construct \/ UseRule

SpecConstruct == InitConstruct /\ [][NextConstruct]_vars

(***************************************************************************)
(* The encoder on its own: one comparator, self._getIpaOfOneWord(in0)      *)
(* called again and again; name0 is what the call returned.                *)
(***************************************************************************)
CacheWords ==
    {<<"a", "n", "n", "a">>,
     <<"A", "n", "n", "a">>,
     <<"l", "e", "e">>,
     <<"b", "o", "b">>,
     <<"k", "a", "c", "i", "e">>,
     <<"c", "a", "r", "y">>}

InitCache ==
    /\ pc = "cold"
    /\ call = 1
    /\ in0 = <<>>
    /\ in1 = <<>>
    /\ name0 = <<>>
    /\ name1 = <<>>
    /\ data = NoData
    /\ match = <<>>
    /\ worth = <<>>
    /\ mod0 = <<>>
    /\ mod1 = <<>>
    /\ prev = NoPrev
    /\ setOrder = <<>>
    /\ combo = <<>>
    /\ once = <<>>
    /\ twice = <<>>
    /\ cache = <<>>
    /\ nicknameSets = NicknameSets
    /\ spellingRules = SpellingRules
    /\ callers = <<>>

EncodeWord ==
    /\ \E word \in CacheWords :
       \E r \in {CachedIpaOfOneWord(cache, word)} :
          /\ in0' = word
          /\ name0' = r.ipa
          /\ cache' = r.cache
          /\ pc' = IF CacheIndex(cache, word) > 0 THEN "hit" ELSE "miss"
    /\ UNCHANGED <<nicknameSets, spellingRules, callers>>
    /\ UNCHANGED <<call, in1, name1, data, match, worth, mod0, mod1, prev, setOrder,
                   combo, once, twice>>

NextCache == EncodeWord

SpecCache == InitCache /\ [][NextCache]_vars

(***************************************************************************)
(* Properties                                                              *)
(***************************************************************************)
\* the attempts of the record that are not None
Recorded(d) ==
    {k \in 1..4 : <<d.attempt1, d.attempt2, d.attempt3, d.attempt4>>[k] # None}

\* C1: in every returned record, if attempt 1 declared a match then
\* attempts 2-4 are absent; if attempt 1 did not and the worth-continuing
\* gate returned False then attempts 2-4 are absent and match is False.
AttemptMonotonicity ==
    pc = "returned" =>
        /\ match[1] => Recorded(data) = {1}
        /\ (~match[1] /\ worth = <<FALSE>>) => (Recorded(data) = {1} /\ ~data.match)

\* attempt 1 matched and the record was returned with attempt 1 alone
AttemptMonotonicityWitness ==
    /\ pc = "returned"
    /\ match = <<TRUE>>
    /\ data.attempt1 # None
    /\ Len(Split(name0)) = 2

\* C1 (second case): attempt 1 failed and the gate refused
AttemptMonotonicityGateWitness ==
    /\ pc = "returned"
    /\ match = <<FALSE>>
    /\ worth = <<FALSE>>

\* C2: in every returned record the recorded attempts are attempt1..attemptN
\* with N >= 1, exactly N attempts were run, none of the first N-1 declared
\* a match, and match is True iff attempt N declared one.
FirstMatchWins ==
    pc = "returned" =>
        \E N \in 1..4 :
            /\ Recorded(data) = 1..N
            /\ Len(match) = N
            /\ \A k \in 1..(N - 1) : ~match[k]
            /\ data.match = match[N]

\* a match declared by attempt 3, after two failed attempts
FirstMatchWinsWitness ==
    /\ pc = "returned"
    /\ match = <<FALSE, FALSE, TRUE>>
    /\ data.match
    /\ data.attempt4 = None

\* C3: compareTwoNames never raises: every call returns its record.
NoExceptions == pc # "raised"

\* a call that raised: digit-only words have no IPA word to score
RaisesOnDigitWords ==
    /\ pc = "raised"
    /\ call = 1
    /\ in0 = <<"1", "2", " ", "3", "4", "5">>
    /\ in1 = <<"1", "3", " ", "3", "4", "6">>
    /\ data.attempt2 # None
    /\ data.attempt3 = None

\* C4: compareTwoNames(A, B).match = compareTwoNames(B, A).match.
SymmetricVerdict ==
    (pc = "returned" /\ call = 2 /\ prev.returned) => data.match = prev.data.match

\* the two orders of the same two names disagree
VerdictDependsOnOrder ==
    /\ pc = "returned"
    /\ call = 2
    /\ prev.returned
    /\ in1 = <<"b", "o", "b", " ", "b", "o", "b", "b">>
    /\ in0 = <<"r", "o", "b", "e", "r", "t", " ", "r", "o", "b">>
    /\ ~prev.data.match
    /\ data.match

\* C5: _cleanNameByItself(_cleanNameByItself(A)) = _cleanNameByItself(A).
CleaningIdempotent == pc = "cleanedTwice" => twice = once

\* a second cleaning strips the title the first one put together
SecondCleaningDiffers ==
    /\ pc = "cleanedTwice"
    /\ in0 = <<"m", " ", "t", "h", "e", " ", "r">>
    /\ once = Literal.mr
    /\ twice # once

\* C6: the cleaned name is never the empty string, and it is "_" for an
\* empty or non-string name.
SentinelForEmpty ==
    pc \in {"cleanedOnce", "cleanedTwice"} =>
        /\ once # <<>>
        /\ (in0 = <<>> \/ in0 = NonString) => once = <<"_">>

\* a title alone cleans to the empty string
TitleCleansToEmpty ==
    /\ pc = "cleanedOnce"
    /\ in0 = <<"M", "r", ".">>
    /\ once = <<>>

\* C10: tooShort is True iff the smaller word count of the two pair-cleaned
\* names is less than 2.
TooShortGate ==
    pc = "gated" => (data.tooShort <=> Min(Len(Split(name0)), Len(Split(name1))) < 2)

\* one name of one word against a name of two: too short
TooShortGateWitness ==
    /\ pc = "gated"
    /\ Len(Split(name0)) = 1
    /\ Len(Split(name1)) = 2
    /\ data.tooShort

\* C10: two names of two words each are not too short
TooShortGateNotWitness ==
    /\ pc = "gated"
    /\ Len(Split(name0)) = 2
    /\ Len(Split(name1)) = 2
    /\ ~data.tooShort

\* the one-to-one assignments of size k between word indices 0..n0-1 and 0..n1-1
Assignments(n0, n1, k) ==
    UNION {{f \in [S -> 0..(n1 - 1)] : \A x, y \in S : f[x] = f[y] => x = y} :
              S \in {T \in SUBSET (0..(n0 - 1)) : Cardinality(T) = k}}

RECURSIVE SumOver(_, _)
SumOver(S, Val) ==
    IF S = {} THEN 0
    ELSE LET x == CHOOSE y \in S : TRUE IN Val[x] + SumOver(S \ {x}, Val)

AssignmentSum(f, words0, words1) ==
    SumOver(DOMAIN f, [i \in DOMAIN f |-> WordScore(words0[i + 1], words1[f[i] + 1])])

AssignmentLetters(f, words0, words1) ==
    SumOver(DOMAIN f, [i \in DOMAIN f |-> Len(words0[i + 1]) + Len(words1[f[i] + 1])])

\* C7: for two names of at least one word each, the alignment has exactly
\* min(|L|, |R|) triples.
AlignmentCardinality ==
    (pc = "aligned" /\ Len(Split(in0)) >= 1 /\ Len(Split(in1)) >= 1)
        => Len(combo) = Min(Len(Split(in0)), Len(Split(in1)))

AlignmentCardinalityWitness ==
    /\ pc = "aligned"
    /\ Len(Split(in0)) = 3
    /\ Len(Split(in1)) = 2
    /\ Len(combo) = 2

\* C8: in the returned alignment the left indices are pairwise distinct, the
\* right indices are pairwise distinct, and each index is a word position of
\* its name.
AlignmentOneToOne ==
    pc = "aligned" =>
        /\ \A x, y \in 1..Len(combo) :
               x # y => (combo[x][1] # combo[y][1] /\ combo[x][2] # combo[y][2])
        /\ \A x \in 1..Len(combo) :
               /\ combo[x][1] \in 0..(Len(Split(in0)) - 1)
               /\ combo[x][2] \in 0..(Len(Split(in1)) - 1)

AlignmentOneToOneWitness ==
    /\ pc = "aligned"
    /\ Len(combo) = 3
    /\ \E x \in 1..3 : combo[x][1] # combo[x][2]

\* C9: the returned alignment has the maximum summed score over all
\* one-to-one assignments of size min(|L|, |R|), and among those of maximum
\* sum the largest total length of matched words.
AlignmentExtremum ==
    pc = "aligned" =>
        LET words0 == Split(in0)
            words1 == Split(in1)
            k == Min(Len(words0), Len(words1))
        IN \A f \in Assignments(Len(words0), Len(words1), k) :
               \/ AssignmentSum(f, words0, words1) < SumScores(combo)
               \/ /\ AssignmentSum(f, words0, words1) = SumScores(combo)
                  /\ AssignmentLetters(f, words0, words1)
                         <= LetterCount(combo, words0, words1)

\* a tie on the maximum sum that the letter count decides
AlignmentExtremumWitness ==
    /\ pc = "aligned"
    /\ Len(combo) >= 1
    /\ LET words0 == Split(in0)
           words1 == Split(in1)
       IN \E f \in Assignments(Len(words0), Len(words1), Len(combo)) :
              /\ AssignmentSum(f, words0, words1) = SumScores(combo)
              /\ AssignmentLetters(f, words0, words1)
                     < LetterCount(combo, words0, words1)

\* the aligned pairs of two names in which at least one word is an initial
InitialPairs(n0, n1) ==
    LET aligned == FindWhichWordsMatchAndHowWell(n0, n1)
    IN {m \in 1..Len(aligned) : \/ Len(Split(n0)[aligned[m][1] + 1]) = 1
                                \/ Len(Split(n1)[aligned[m][2] + 1]) = 1}

\* the last word of the name is not one of topSurnames
LastWordIsRare(name) == Split(name)[Len(Split(name))] \notin TopSurnames

\* C11: tooGeneric is False when the last words of both cleaned names are
\* absent from topSurnames; otherwise it is True iff k <= n + 1, k the
\* smaller word count and n the number of aligned pairs with an initial.
TooGenericGate ==
    pc = "gated" =>
        IF LastWordIsRare(name0) /\ LastWordIsRare(name1) THEN ~data.tooGeneric
        ELSE data.tooGeneric <=>
                 Min(Len(Split(name0)), Len(Split(name1)))
                     <= Cardinality(InitialPairs(name0, name1)) + 1

\* an initial and a common surname against two words with that surname
TooGenericGateWitness ==
    /\ pc = "gated"
    /\ ~LastWordIsRare(name0)
    /\ Len(Split(name0)) = 2
    /\ Len(Split(name1)) = 2
    /\ Cardinality(InitialPairs(name0, name1)) = 1
    /\ data.tooGeneric

\* C12: comparing "A. Smith" with "A. Smith" gives tooShort True and match
\* False.
InitialAndSurname ==
    (/\ pc = "returned"
     /\ in0 = <<"A", ".", " ", "S", "m", "i", "t", "h">>
     /\ in1 = <<"A", ".", " ", "S", "m", "i", "t", "h">>)
        => (data.tooShort /\ ~data.match)

\* the record the code returns for them: the initial counts as a word, the
\* names are not too short, and attempt 1 matches
InitialAndSurnameMatch ==
    /\ pc = "returned"
    /\ in0 = <<"A", ".", " ", "S", "m", "i", "t", "h">>
    /\ in1 = <<"A", ".", " ", "S", "m", "i", "t", "h">>
    /\ ~data.tooShort
    /\ data.tooGeneric
    /\ data.match
    /\ data.attempt1[1] = <<"a", " ", "s", "m", "i", "t", "h">>
    /\ data.attempt2 = None

\* the preconditions of a rule on two tokens, for the breads bread1 and
\* bread2: both tokens are long enough and, between word breaks, each holds
\* bread1(meatA|meatB)bread2, the two matches differ, and their start and end
\* offsets differ by at most 2
RulePreconditions(word0, word1, rule, bread1, bread2) ==
    LET results1 == SandwichSearch(Literal.dash \o word0 \o Literal.dash,
                                   bread1, rule[1], rule[2], bread2)
        results2 == SandwichSearch(Literal.dash \o word1 \o Literal.dash,
                                   bread1, rule[1], rule[2], bread2)
    IN /\ Len(word0) >= rule[5]
       /\ Len(word1) >= rule[5]
       /\ results1 # NoMatch
       /\ results2 # NoMatch
       /\ (results1[2] - results1[1]) # (results2[2] - results2[1])
       /\ Abs(results1[1] - results2[1]) <= 2
       /\ Abs(results1[2] - results2[2]) <= 2

\* C13: when two aligned tokens satisfy the preconditions of a rule for a
\* common pair of breads, after the call both tokens hold meatB between
\* those breads.
RuleCanonicalization ==
    pc = "ruled" =>
        \A n \in 1..Len(SpellingRules[call][3]), k \in 1..Len(SpellingRules[call][4]) :
            RulePreconditions(in0, in1, SpellingRules[call],
                              SpellingRules[call][3][n], SpellingRules[call][4][k])
                => LET site == SpellingRules[call][3][n] \o SpellingRules[call][2]
                                   \o SpellingRules[call][4][k]
                   IN /\ Contains(Literal.dash \o name0 \o Literal.dash, site)
                      /\ Contains(Literal.dash \o name1 \o Literal.dash, site)

\* 'phaphb' against 'faxxafb' under (ph, f): the breads a and b bracket
\* different meats two places apart, and 'aphb' is still there after the call
RuleLeavesFirstMeat ==
    /\ pc = "ruled"
    /\ call = 1
    /\ in0 = <<"p", "h", "a", "p", "h", "b">>
    /\ in1 = <<"f", "a", "x", "x", "a", "f", "b">>
    /\ RulePreconditions(in0, in1, SpellingRules[1], <<"a">>, <<"b">>)
    /\ name0 = <<"f", "a", "p", "h", "b">>
    /\ name1 = in1

\* C14: whatever calls came before, and whatever the cache holds or has
\* dropped, the encoder returns for a word what it returns from a cold cache,
\* and every entry of the cache holds the cold result of its key.
CacheTransparency ==
    /\ pc \in {"hit", "miss"} => name0 = GetIpaOfOneWord(in0)
    /\ \A i \in 1..Len(cache) : cache[i][2] = GetIpaOfOneWord(cache[i][1])

\* a full cache that has dropped 'anna' answers 'Anna' from an entry
HitInFullCache ==
    /\ pc = "hit"
    /\ Len(cache) = MaxCache
    /\ in0 = <<"A", "n", "n", "a">>
    /\ name0 = <<"ash", "n", "schwa">>
    /\ \A i \in 1..Len(cache) : cache[i][1] # <<"a", "n", "n", "a">>

\* a rule of five items whose breads are lists or names of the expansion table
ValidRule(raw) ==
    /\ Len(raw) = 5
    /\ \A i \in {3, 4} : raw[i].isStr => raw[i].val \in DOMAIN SpellingReplacementRules

\* C15: a comparator is constructed, and used for a comparison, only when
\* its rule has exactly 5 items and breads the expansion table knows.
InvalidRuleRejected ==
    pc \in {"constructed", "ruled"} => ValidRule(RuleCandidates[call])

\* the comparator built from a rule whose top bread is the unknown name
\* 'brk' rewrites 'aphb' against 'afb'
InvalidRuleUsed ==
    /\ pc = "ruled"
    /\ ~ValidRule(RuleCandidates[call])
    /\ Len(RuleCandidates[call]) = 5
    /\ in0 = <<"a", "p", "h", "b">>
    /\ in1 = <<"a", "f", "b">>
    /\ name0 = <<"a", "f", "b">>

\* what compareTwoNames(in0, in1) does on a comparator nobody else uses
RunAlone == CompareTwoNames(<<>>, NicknameSets, in0, in1, setOrder)

\* the stages of the pipeline are compareTwoNames cut at its statements
PipelineIsCompareTwoNames ==
    (call = 1 /\ pc \in {"returned", "raised"}) =>
        \E alone \in {RunAlone} :
            /\ pc = alone.pc
            /\ data = alone.data
            /\ cache = alone.cache
            /\ nicknameSets = alone.sets

\* C16: no call changes the nickname table, and a call whose stages
\* interleave with those of another caller ends as it ends on a comparator
\* of its own, with the same record.
SharedCallsAgree ==
    /\ nicknameSets = NicknameSets
    /\ pc \in {"returned", "raised"} =>
           \E alone \in {RunAlone} :
               /\ pc = alone.pc
               /\ pc = "returned" => data = alone.data

\* both calls have returned; this one tried the pronunciations after the
\* other had filled the cache, the other replaced a nickname
SharedCallsBothReturned ==
    /\ callers # <<>>
    /\ pc = "returned"
    /\ callers[1].pc = "returned"
    /\ data.attempt4 # None
    /\ callers[1].data.attempt4 # None
    /\ callers[1].in0 = <<"b", "o", "b", " ", "b", "o", "b", "b">>
    /\ callers[1].name0 = <<"r", "o", "b", " ", "b", "o", "b", "b">>
    /\ cache # RunAlone.cache

\* C17: what the single-name cleaner returns holds none of junior, senior,
\* professor, mister, missus, miss, doctor, reverend, 'no suffix',
\* 'head of household'.
NoTitleSubstrings ==
    pc = "cleanedOnce" => \A t \in Titles : ~Contains(once, t)

\* 'junior lee' comes back as it went in
JuniorSurvives ==
    /\ pc = "cleanedOnce"
    /\ in0 = <<"j", "u", "n", "i", "o", "r", " ", "l", "e", "e">>
    /\ once = in0

\* C18: _isWorthContinuing returns False exactly when the alignment has at
\* most 3 pairs and some pair of score 0 holds an initial; a pair of score 0
\* between two longer words does not stop the pipeline.
WorthContinuingGate ==
    worth # <<>> =>
        LET Gate(wordCombo, words0, words1) ==
                worth[1] = ~(/\ Len(wordCombo) <= 3
                             /\ \E m \in 1..Len(wordCombo) :
                                    /\ wordCombo[m][3] = 0
                                    /\ (Len(words0[wordCombo[m][1] + 1]) = 1
                                          \/ Len(words1[wordCombo[m][2] + 1]) = 1))
        IN Gate(FindWhichWordsMatchAndHowWell(name0, name1), Split(name0), Split(name1))

\* 'bob bobb' against 'smith': the one pair is (bobb, smith) with score 0,
\* no initial in it, and the call returns after the gate said False
ZeroScoreStopsLongWords ==
    /\ pc = "returned"
    /\ name0 = <<"b", "o", "b", " ", "b", "o", "b", "b">>
    /\ name1 = <<"s", "m", "i", "t", "h">>
    /\ data.attempt1[3] = <<<<1, 0, 0>>>>
    /\ worth = <<FALSE>>
    /\ data.attempt2 = None

\* the pairs of the alignment with a score above 80
HighScores(wordCombo) == Cardinality({m \in 1..Len(wordCombo) : wordCombo[m][3] > 80})

\* the pairs of the alignment that count as consonant matches
ConsonantMatches(wordCombo, words0, words1) ==
    Cardinality({m \in 1..Len(wordCombo) :
        IsConsonantMatch(words0[wordCombo[m][1] + 1], words1[wordCombo[m][2] + 1],
                         wordCombo[m][3])})

\* C19: _spellingComparison declares a match exactly when at least 3 pairs
\* score above 80, or as many as the shorter name has words, or the
\* consonant check succeeds; the alignment it returns is that of its names.
SpellingDecision ==
    pc = "spelled" =>
        LET Decision(wordCombo) ==
                /\ combo = wordCombo
                /\ match[1] = (\/ HighScores(wordCombo) >= 3
                               \/ HighScores(wordCombo)
                                      = Min(Len(Split(in0)), Len(Split(in1)))
                               \/ ConsonantComparison(in0, in1))
        IN Decision(FindWhichWordsMatchAndHowWell(in0, in1))

\* three of the four pairs score 100, the fourth 50, no pair is a consonant
\* match: the three-pairs rule alone makes the match
ThreeOfFourMatch ==
    /\ pc = "spelled"
    /\ in0 = <<"a", "l", " ", "b", "o", " ", "c", "y", " ", "d", "i">>
    /\ in1 = <<"a", "l", " ", "b", "o", " ", "c", "y", " ", "e", "d">>
    /\ combo = <<<<0, 0, 100>>, <<1, 1, 100>>, <<2, 2, 100>>, <<3, 3, 50>>>>
    /\ ~ConsonantComparison(in0, in1)
    /\ match = <<TRUE>>

\* C20: the counted pairs never outnumber the alignment, so
\* _consonantComparison returns True exactly when at least 3 pairs count as
\* consonant matches, and False whenever the shorter name has fewer than 3
\* words.
ConsonantNeedsThree ==
    pc = "consonants" =>
        LET Decision(wordCombo, count) ==
                /\ count <= Len(wordCombo)
                /\ Len(wordCombo) = Min(Len(Split(in0)), Len(Split(in1)))
                /\ match[1] = (count >= 3)
                /\ Min(Len(Split(in0)), Len(Split(in1))) < 3 => ~match[1]
            Counted(wordCombo) ==
                Decision(wordCombo, ConsonantMatches(wordCombo, Split(in0), Split(in1)))
        IN Counted(FindWhichWordsMatchAndHowWell(in0, in1))

\* 'ana eva' against 'ano evo': both pairs are consonant matches, and
\* two are not enough
TwoConsonantPairsFail ==
    /\ pc = "consonants"
    /\ in0 = <<"a", "n", "a", " ", "e", "v", "a">>
    /\ in1 = <<"a", "n", "o", " ", "e", "v", "o">>
    /\ ConsonantMatches(FindWhichWordsMatchAndHowWell(in0, in1), Split(in0), Split(in1)) = 2
    /\ match = <<FALSE>>

(***************************************************************************)
(* C21: the pronunciation check reports a match exactly when the lowest    *)
(* score of the chosen IPA alignment is at least 80 and the shorter name   *)
(* has at most two words, or is above 75 and the shorter name has more     *)
(* than two words.                                                         *)
(***************************************************************************)
PronunciationThreshold ==
    pc = "pronounced" =>
        LET k == Min(Len(Split(name0)), Len(Split(name1)))
            lowest == LowestScore(combo)
        IN match[1] <=> \/ (k <= 2 /\ lowest >= 80)
                        \/ (k > 2 /\ lowest > 75)

\* three aligned words, the lowest score between 76 and 79, and a match
ThreeWordsAt77Match ==
    /\ pc = "pronounced"
    /\ Min(Len(Split(name0)), Len(Split(name1))) = 3
    /\ LowestScore(combo) > 75
    /\ LowestScore(combo) < 80
    /\ match[1]

(***************************************************************************)
(* C22: a score of the IPA alignment is the ratio of the two IPA words,    *)
(* except for a pair of the alignment of the words before encoding in      *)
(* which one word is an initial, which keeps its score of 0 or 100; a pair *)
(* of two words of more than one character keeps the ratio of its IPA.     *)
(***************************************************************************)
IpaScoresKeepRatio ==
    pc = "pronounced" =>
        \A n \in 1..Len(combo) :
            LET i == combo[n][1]
                j == combo[n][2]
                word0 == Split(in0)[i + 1]
                word1 == Split(in1)[j + 1]
                before == SelectSeq(FindWhichWordsMatchAndHowWell(in0, in1),
                              LAMBDA tup : tup[1] = i /\ tup[2] = j)
            IN combo[n][3] =
                  IF (Len(word0) = 1 \/ Len(word1) = 1) /\ before # <<>>
                  THEN before[1][3]
                  ELSE Ratio(Split(name0)[i + 1], Split(name1)[j + 1])

\* an initial against a longer word takes the score of the spelling alignment
InitialKeepsSpellingScore ==
    /\ pc = "pronounced"
    /\ Len(in0) = 1
    /\ Len(in1) > 1
    /\ combo = << <<0, 0, 100>> >>
    /\ Ratio(name0, name1) < 100

\* the positions (from 1) where two words of one length differ
DiffPositions(word0, word1) == {p \in 1..Len(word0) : word0[p] # word1[p]}

(***************************************************************************)
(* C23: _fixVowelMistakes changes a word of the left name only into a word *)
(* of the right name of the same length, at least 5, that differs from it  *)
(* in exactly one position, the two characters there being a and o, e and  *)
(* a, or i and y; a pair that differs in two or more positions, one of     *)
(* them the first, is left alone.                                          *)
(***************************************************************************)
VowelRepairSingleDifference ==
    pc = "vowels" =>
        LET words0 == Split(in0)
            words1 == Split(in1)
            out == Split(name0)
        IN /\ Len(out) = Len(words0)
           /\ \A i \in 1..Len(words0) :
                 out[i] # words0[i] =>
                    \E j \in 1..Len(words1) :
                       /\ out[i] = words1[j]
                       /\ Len(words0[i]) = Len(words1[j])
                       /\ Len(words0[i]) >= 5
                       /\ \E p \in 1..Len(words0[i]) :
                             /\ DiffPositions(words0[i], words1[j]) = {p}
                             /\ \/ <<words0[i][p], words1[j][p]>> \in Cooresponding
                                \/ <<words1[j][p], words0[i][p]>> \in Cooresponding

\* banel against bonel: one difference, a against o, and the left word is
\* overwritten
OneVowelRepaired ==
    /\ pc = "vowels"
    /\ Len(in0) = 5
    /\ Len(in1) = 5
    /\ Cardinality(DiffPositions(in0, in1)) = 1
    /\ name0 = in1
    /\ name0 # in0

(***************************************************************************)
(* C24: _fixSwappedChars overwrites a word of the left name only with a    *)
(* word of the right name when both have exactly 5 characters, their ratio *)
(* is exactly 80, and they differ in exactly two adjacent positions whose  *)
(* characters are exchanged.                                               *)
(***************************************************************************)
SwapRepairTransposition ==
    pc = "swapped" =>
        LET words0 == Split(in0)
            words1 == Split(in1)
            out == Split(name0)
        IN /\ Len(out) = Len(words0)
           /\ \A i \in 1..Len(words0) :
                 out[i] # words0[i] =>
                    \E j \in 1..Len(words1) :
                       /\ out[i] = words1[j]
                       /\ Len(words0[i]) = 5
                       /\ Len(words1[j]) = 5
                       /\ Ratio(words1[j], words0[i]) = 80
                       /\ \E p \in 1..4 :
                             /\ DiffPositions(words0[i], words1[j]) = {p, p + 1}
                             /\ words0[i][p] = words1[j][p + 1]
                             /\ words0[i][p + 1] = words1[j][p]

\* abcde against acbde: two exchanged neighbours, and the left word is
\* overwritten
TranspositionRepaired ==
    /\ pc = "swapped"
    /\ Len(in0) = 5
    /\ Len(in1) = 5
    /\ \E p \in 1..4 :
          /\ DiffPositions(in0, in1) = {p, p + 1}
          /\ in0[p] = in1[p + 1]
          /\ in0[p + 1] = in1[p]
    /\ name0 = in1

\* the names the fusion of `prefix` returns for (n0, n1) when it fuses if and
\* only if both names hold ' prefix ' before a character and the letters
\* after the first ' prefix ' of each name are the same
FusedOnSameLetter(n0, n1, prefix) ==
    LET spPrefixSp == <<" ">> \o prefix \o <<" ">>
        after(name) == name[IndexOf(name, spPrefixSp) + Len(spPrefixSp)]
    IN IF /\ HasPrefixThenChar(n0, prefix)
          /\ HasPrefixThenChar(n1, prefix)
          /\ after(n0) = after(n1)
       THEN <<Replace(n0, spPrefixSp, <<" ">> \o prefix),
              Replace(n1, spPrefixSp, <<" ">> \o prefix)>>
       ELSE <<n0, n1>>

(***************************************************************************)
(* C25: for the prefixes de and van, the two names are fused (' prefix X'  *)
(* becomes ' prefixX' in both) if and only if ' prefix ' before a          *)
(* character occurs in both names and the first letter after the prefix is *)
(* the same in both; otherwise both names are returned unchanged.          *)
(***************************************************************************)
PrefixFusionNeedsSameLetter ==
    /\ pc = "de" => <<name0, name1>> = FusedOnSameLetter(in0, in1, <<"d", "e">>)
    /\ pc = "van" => <<name0, name1>> = FusedOnSameLetter(in0, in1, <<"v", "a", "n">>)

\* ' de b' in both names: fused on both sides
DeFusedOnSameLetter ==
    /\ pc = "de"
    /\ HasPrefixThenChar(in0, <<"d", "e">>)
    /\ HasPrefixThenChar(in1, <<"d", "e">>)
    /\ in0 # in1
    /\ name0 # in0
    /\ name1 # in1

\* a call that reports a combination, in either loop
CombinationShrinks ==
    /\ (pc = "first" /\ pc' = "first") =>
          (/\ Len(Split(name0)) >= 3
           /\ Len(Split(name0')) = Len(Split(name0)) - 1
           /\ name1' = name1)
    /\ (pc = "second" /\ pc' = "second") =>
          (/\ Len(Split(name1)) >= 3
           /\ Len(Split(name1')) = Len(Split(name1)) - 1
           /\ name0' = name0)

(***************************************************************************)
(* C26: both split-word loops end: a call of _combineSplitWords that       *)
(* reports a combination is made on a name of at least 3 words, returns    *)
(* that name with exactly one word fewer and the other name unchanged, so  *)
(* the second loop is left after finitely many calls.                      *)
(***************************************************************************)
SplitWordLoopsTerminate == [][CombinationShrinks]_vars /\ <>(pc = "done")

\* the first loop has combined two words of the first name
FirstLoopCombined ==
    /\ pc = "first"
    /\ Len(Split(in0)) = 3
    /\ Len(Split(name0)) = 2
    /\ name1 = in1

\* the second loop has combined a word of the second name
SecondLoopCombined ==
    /\ pc = "second"
    /\ Len(Split(name1)) = Len(Split(in1)) - 1
    /\ name0 = in0

(***************************************************************************)
(* C27: _removeNicknames returns the right name unchanged; a word w0 of    *)
(* the left name is replaced only when it is not a word of the right name, *)
(* and only by a word of its nickname set that is a word of the right name *)
(* and not a word of the left name; every w0 gets at most one substitute.  *)
(***************************************************************************)
NicknamesRewriteOnlyTheirWord ==
    pc = "substituted" =>
        LET words0 == Split(in0)
            words1 == Split(in1)
            out == Split(name0)
        IN /\ name1 = in1
           /\ Len(out) = Len(words0)
           /\ \A i \in 1..Len(words0) :
                 out[i] # words0[i] =>
                    /\ words0[i] \notin Range(words1)
                    /\ out[i] \in Range(words1)
                    /\ out[i] \notin Range(words0)
                    /\ \E n \in 1..Len(NicknameSets) :
                          {words0[i], out[i]} \subseteq Range(NicknameSets[n])
           /\ \A i, j \in 1..Len(words0) :
                 words0[i] = words0[j] => out[i] = out[j]

\* 'bob lee' against 'robert lee': bob becomes robert, lee stays
NicknameSubstituted ==
    /\ pc = "substituted"
    /\ name1 = in1
    /\ Len(Split(in0)) = 2
    /\ Split(in0)[1] \notin Range(Split(in1))
    /\ Split(name0)[1] # Split(in0)[1]
    /\ Split(name0)[1] \in Range(Split(in1))
    /\ Split(name0)[2] = Split(in0)[2]

(***************************************************************************)
(* C28: the th guard rejects a candidate word[i:j] only if it begins with  *)
(* h and the character just before it in the token is t, or it ends with t *)
(* and the character just after it is h; a candidate at position 0 has no  *)
(* character before it and is never rejected for its leading h.            *)
(***************************************************************************)
ThGuardOnlySplitsTh ==
    pc = "guarded" =>
        LET i == combo[1]
            j == combo[2]
        IN match[1] =>
              \/ in0[i + 1] = "h" /\ i >= 1 /\ in0[i] = "t"
              \/ in0[j] = "t" /\ j < Len(in0) /\ in0[j + 1] = "h"

\* 'ha' after a t is rejected
ThGuardRejectsAfterT ==
    /\ pc = "guarded"
    /\ match[1]
    /\ combo[1] >= 1
    /\ in0[combo[1]] = "t"
    /\ in0[combo[1] + 1] = "h"

\* whether every word of the name `after` is the word of `before` at the same
\* place, but for meats of the rule that were rewritten
OnlyMeatChanged(before, after, rule) ==
    /\ Len(Split(after)) = Len(Split(before))
    /\ \A i \in 1..Len(Split(before)) :
          Replace(Split(after)[i], rule[1], rule[2])
              = Replace(Split(before)[i], rule[1], rule[2])

(***************************************************************************)
(* C29: a rule changes a word only inside a meat it rewrote: every other   *)
(* word comes back character for character, with the dashes it had before *)
(* the '-' sentinels were added, and each name keeps its number of words.  *)
(***************************************************************************)
RuleChangesOnlyMeat ==
    pc = "framed" =>
        /\ OnlyMeatChanged(in0, name0, SpellingRules[call])
        /\ OnlyMeatChanged(in1, name1, SpellingRules[call])

\* 'anna phone' against 'anna fone': ph became f, anna came back unchanged
MeatRewrittenOthersKept ==
    /\ pc = "framed"
    /\ name0 # in0
    /\ ~Contains(in0, <<"-">>)
    /\ Split(name0)[1] = Split(in0)[1]
    /\ name1 = in1
    /\ OnlyMeatChanged(in0, name0, SpellingRules[call])

\* the first two fields of an attempt tuple
NamesOf(attempt) == <<attempt[1], attempt[2]>>

\* what one step of a call does to the record `data`, stage by stage
AttemptInputsStep ==
    /\ (pc = "cleaned" /\ pc' = "gated") =>
          /\ data'.tooShort = EitherNameTooShort(name0, name1)
          /\ data'.tooGeneric = EitherNameTooGeneric(name0, name1)
    /\ (pc = "gated" /\ pc' = "attempt1") =>
          \E names \in {RemoveNicknames(nicknameSets, name0, name1, setOrder)} :
              <<name0', name1'>> = <<names[1], names[2]>>
    /\ pc = "attempt1" =>
          /\ NamesOf(data'.attempt1) = <<name0, name1>>
          /\ data'.match = SpellingComparison(name0, name1)[1]
    /\ pc = "attempt2" =>
          \E modified \in {ModifyNamesTogether(data.attempt1[1], data.attempt1[2])} :
              /\ NamesOf(data'.attempt2) = <<modified[1], modified[2]>>
              /\ data'.match = SpellingComparison(modified[1], modified[2])[1]
    /\ (pc = "attempt3" /\ pc' # "raised") =>
          \E r \in {PronunciationComparison(<<>>, data.attempt2[1], data.attempt2[2])} :
              /\ data'.attempt3 = <<r.ipa0, r.ipa1, r.combo>>
              /\ data'.match = r.match
    /\ (pc = "attempt4" /\ pc' # "raised") =>
          \E r \in {PronunciationComparison(<<>>, data.attempt1[1], data.attempt1[2])} :
              /\ data'.attempt4 = <<r.ipa0, r.ipa1, r.combo>>
              /\ data'.match = r.match
    /\ pc \in {"gated", "attempt1", "worth", "attempt2", "attempt3", "attempt4"} =>
          /\ data'.tooShort = data.tooShort
          /\ data'.tooGeneric = data.tooGeneric

(***************************************************************************)
(* C30: attempt 1 compares the pair-cleaned names after the nickname       *)
(* substitution, attempt 2 the Modifier's output for the names of attempt  *)
(* 1, attempt 3 the pronunciation of the names of attempt 2, attempt 4 the *)
(* pronunciation of the names of attempt 1; the two gates are computed     *)
(* before the nickname substitution and the verdict never depends on them. *)
(***************************************************************************)
AttemptInputs == [][AttemptInputsStep]_vars

\* all four attempts ran, and the Modifier changed a name
FourAttemptsOnTwoPairs ==
    /\ pc = "returned"
    /\ data.attempt4 # None
    /\ NamesOf(data.attempt2) # NamesOf(data.attempt1)
    /\ data.attempt3 # data.attempt4
====
